---- MODULE Spec2Model ----
(***************************************************************************)
(* A model of pykumo (src/pykumo).  Its components share no state; each    *)
(* has its own specification:                                              *)
(*   SpecRetrieve   PyKumo._retrieve_attributes, the resilient query       *)
(*                  engine (py_kumo.py)                                    *)
(*   SpecSession    KumoCloudV3._socketio_session, the password harvester  *)
(*                  (py_kumo_cloud_account_v3.py)                          *)
(*   SpecGet        KumoCloudV3._get and refresh, one caller               *)
(*   SpecWorkers    KumoCloudV3._get and refresh, several threads          *)
(*   SpecProbe      probe_candidate_ips (py_kumo_discovery.py)             *)
(*   SpecAccount    KumoCloudAccount: fetch, accessors, V3-only setup      *)
(*   SpecNames      KumoCloudAccount.make_pykumos                          *)
(*   SpecMerge      merge (py_kumo.py)                                     *)
(*   SpecRequest    PyKumoBase._token, _request and _compute_token         *)
(*   SpecStatus     update_status of PyKumo and PyKumoStation              *)
(*   SpecSchedule   UnitSchedule.fetch, push and clear                     *)
(* SpecRetrieveLive, SpecSessionLive and SpecScheduleLive add the fairness *)
(* under which the termination properties are read.                        *)
(***************************************************************************)
EXTENDS Integers, Sequences, FiniteSets, TLC

(***************************************************************************)
(* Bounds of the model.                                                    *)
(***************************************************************************)
\* The wall clock (datetime.datetime.now()) is counted in ticks of ten
\* minutes and runs from 0 to MaxClock.
MaxClock == 6
\* One pass of _retrieve_attributes lasts at most MaxPassTicks ticks: every
\* request is bounded by the unit timeouts of const.py and the urllib3 Retry
\* of _request, the sleeps are 1 s and 5 s, and a pass makes at most
\* retries * (1 + len(needed)) requests.
MaxPassTicks == 2
\* The retries argument ranges over 0..MaxRetries (the default is 3).
MaxRetries == 3
\* The needed argument is a list of at most MaxNeeded attribute names.
MaxNeeded == 2

\* The text of a poll response batches at most MaxMessages messages.
MaxMessages == 2
\* The timeout_secs argument ranges over 0..MaxTimeoutSecs; time.monotonic()
\* is counted in seconds.
MaxTimeoutSecs == 1
\* Polls of the polling loop beyond the first MaxPolls take a second or more.
MaxPolls == 2

\* A KumoCloudV3 client is asked for a _get only while the server has issued
\* fewer than MaxIssued generations of tokens to it.
MaxIssued == 3
\* The candidate_ips list has at most MaxCandidates entries.
MaxCandidates == 3
\* The mappings given to merge nest at most MaxNesting mappings below them.
MaxNesting == 2

\* A cryptoSerial has at most MaxSerialLen bytes.
MaxSerialLen == 9
\* A password and a command have at most MaxPayload bytes.
MaxPayload == 1

\* A schedule has at most MaxSlots events, and push is given a batch_size of
\* 1..MaxSlots.
MaxSlots == 3

\* MaxWorkers threads share one KumoCloudV3 client.
MaxWorkers == 2

\* An account has at most MaxUnits units.
MaxUnits == 4

\* An account contacts the V3 cloud to supplement at most MaxV3Runs times.
MaxV3Runs == 2

\* datetime.timedelta(minutes=30), in ticks of ten minutes.
RebootWindow == 3
\* min(25, remaining + 1)
PollTimeoutCap == 25
\* POSSIBLE_SENSORS (const.py)
POSSIBLE_SENSORS == 4
\* bytearray(88)
IntermediateLen == 88
\* hashlib.sha256(...).digest() has 32 bytes
DigestLen == 32

AttributeNames == <<"mode", "standby", "spHeat">>

\* The lists a caller passes as needed: the prefixes of AttributeNames.
NeededChoices == { SubSeq(AttributeNames, 1, n) : n \in 0..MaxNeeded }

SeqToSet(s) == { s[i] : i \in 1..Len(s) }

(***************************************************************************)
(* Device responses.  A response is what PyKumoBase._request returns:      *)
(*   None     no request was made yet (the local is None)                  *)
(*   unbound  the local was never assigned                                 *)
(*   empty    {} : transport failure, timeout, reply that is not JSON      *)
(*   ok       {'r': {...}} carrying the data of the attributes in attrs    *)
(*   auth     {'_api_error': 'device_authentication_error'}                *)
(*   ser      {'_api_error': 'serializer_error'}                           *)
(*   nomem    a mapping whose text contains '__no_memory'                  *)
(*   list     a JSON value that is not an object, e.g. []                  *)
(*   str      a JSON string that spells the requested attribute            *)
(***************************************************************************)
Resp(k, as) == [kind |-> k, attrs |-> as]

NoneResp == Resp("None", {})
UnboundResp == Resp("unbound", {})
EmptyResp == Resp("empty", {})

\* response.get exists: the value is a mapping.
IsDict(r) == r.kind \in {"empty", "ok", "auth", "ser", "nomem"}

\* response.get('_api_error', "")
ApiError(r) ==
    CASE r.kind = "ser" -> "serializer_error"
      [] r.kind = "auth" -> "device_authentication_error"
      [] OTHER -> ""

\* '__no_memory' in str(response)
HasNoMemory(r) == r.kind = "nomem"

\* bool(response)
Truthy(r) == r.kind \notin {"None", "empty"}

\* attribute in str(sub_response)
ContainsAttr(r, a) == a \in r.attrs \/ r.kind = "str"

\* PyKumo._rebootable_response, for a mapping
RebootableWithAuth(r) ==
    \/ ApiError(r) = "serializer_error"
    \/ ApiError(r) = "device_authentication_error"
    \/ HasNoMemory(r)

RebootableResponse(r) ==
    \/ ApiError(r) = "serializer_error"
    \/ HasNoMemory(r)

\* PyKumo._retryable_response, for a mapping
RetryableResponse(r) ==
    \/ ApiError(r) = "serializer_error"
    \/ ApiError(r) = "device_authentication_error"
    \/ HasNoMemory(r)

\* d.update(v): the 'r' of v replaces the 'r' of d instead of being merged
\* into it.
mergeShallow(d, v) ==
    Resp(IF d.kind = "nomem" \/ v.kind = "nomem" THEN "nomem" ELSE "ok", v.attrs)

\* merge(d, v) on the keys the two mappings hold: the keys of v are added to
\* those of d, and the memory marker of either stays in the text.
merge(d, v) ==
    Resp(IF d.kind = "nomem" \/ v.kind = "nomem" THEN "nomem" ELSE "ok",
         d.attrs \cup v.attrs)

\* What a device can answer to the top-level query for needed list nd.
TopResponses(nd) ==
    { EmptyResp, Resp("ok", SeqToSet(nd)), Resp("auth", {}), Resp("ser", {}),
      Resp("nomem", {}), Resp("list", {}) }

\* What a device can answer to the query of attribute a alone.
SubResponses(a) ==
    { EmptyResp, Resp("ok", {a}), Resp("auth", {}), Resp("ser", {}),
      Resp("nomem", {}), Resp("nomem", {a}), Resp("list", {}), Resp("str", {}) }

(***************************************************************************)
(* The Kumo Cloud V3 client (KumoCloudV3) and its realtime harvester.      *)
(*                                                                         *)
(* A token is [v, id]: v numbers the token strings the server issued (0 is *)
(* None), id tells whether the JWT payload decodes to an object with an    *)
(* `id` field.  The text of a poll response is a batch of messages joined  *)
(* by the record separator; a message is                                   *)
(*   pre       it starts with a numeric length prefix and a colon          *)
(*   t         "2" ping, "44" connect error, "42au" an adapter_update      *)
(*             event, "42other" any other "42" message                     *)
(*   serial, password   the fields of the adapter_update payload           *)
(***************************************************************************)
Serials == {"s1", "s2"}

PasswordValues == {"pA", "pB"}

NoToken == [v |-> 0, id |-> FALSE]

EmptyMap == [x \in {} |-> ""]

\* d[k] = val on a dict
Put(d, k, val) == [x \in DOMAIN d \cup {k} |-> IF x = k THEN val ELSE d[x]]

Message(p, t, sn, pw) == [pre |-> p, t |-> t, serial |-> sn, password |-> pw]

\* The messages a server can put in a batch.
Messages ==
    { Message(p, "2", "", "") : p \in BOOLEAN }
    \cup { Message(FALSE, "44", "", ""), Message(FALSE, "42other", "", "") }
    \cup { Message(p, "42au", sn, pw) :
              p \in BOOLEAN, sn \in Serials, pw \in PasswordValues \cup {""} }

\* resp.text.startswith("44"), from the first message of the text
StartsWith44(first) == first # << >> /\ first[1].t = "44" /\ ~first[1].pre

\* msg == "2", the test `"2" in self._split_messages(resp.text)` makes of
\* each message (no prefix is stripped there)
IsPing(m) == m.t = "2" /\ ~m.pre

\* if ":" in msg and msg.split(":")[0].isdigit(): msg = msg.split(":", 1)[1]
StripPrefix(m) == [m EXCEPT !.pre = FALSE]

\* The tests _extract_passwords makes of one message (lines 309-325).
AcceptsEvent(msg, sn) ==
    LET m == StripPrefix(msg)
    IN  m.t = "42au" /\ m.serial \in sn /\ m.password # ""

\* One iteration of the for loop of _extract_passwords: the passwords dict
\* after message m.
ExtractMessageFirstWins(m, pw, sn) ==
    IF AcceptsEvent(m, sn) /\ m.serial \notin DOMAIN pw
    THEN Put(pw, m.serial, m.password)
    ELSE pw

ExtractMessage(m, pw, sn) ==
    IF AcceptsEvent(m, sn) THEN Put(pw, m.serial, m.password) ELSE pw

\* How the handshake GET can end (lines 194-211).
HandshakeOutcomes ==
    { "error",      \* the GET raised
      "notok",      \* error status
      "no0",        \* text does not start with "0"
      "badjson",    \* text[1:] is not JSON
      "nonobj",     \* text[1:] is JSON but not an object
      "nosid",      \* an object without sid
      "good" }

\* The token pairs a login or refresh reply can carry: data.get("access") and
\* data.get("refresh"), each the n-th token string issued or None.
TokenPairs(n) ==
    { << a, r >> :
        a \in { NoToken, [v |-> n, id |-> TRUE], [v |-> n, id |-> FALSE] },
        r \in { NoToken, [v |-> n, id |-> FALSE] } }

Min(a, b) == IF a < b THEN a ELSE b

(***************************************************************************)
(* State of one PyKumo client and of its running _retrieve_attributes.     *)
(***************************************************************************)
VARIABLES
    clock,           \* datetime.datetime.now(), in ticks
    elapsed,         \* ticks spent in the running pass
    last_reboot,     \* self._last_reboot: <<>> for None, else <<time>>
    pc,              \* idle, top, sub, finish, done, raised
    do_top_query,    \* argument
    retries,         \* argument
    needed,          \* argument
    depth,           \* number of recursive re-entries of the running call
    should_reboot,   \* local
    response,        \* local
    tries,           \* local
    attr,            \* index in needed of the attribute being queried
    sub_response,    \* local
    built_response,  \* local
    ret,             \* the value returned to the caller
    \* history of the run, read by the properties only
    rebootLog,       \* the clock readings recorded at each reboot command
    callReboots,     \* reboot commands sent by the running call
    callQueries,     \* query requests sent by the running call
    openAtCall,      \* no reboot in the 30 minutes before the call
    sawRebootable,   \* a rebootable response was received in the call
    topCount,        \* top-level requests sent in the running pass
    subCount,        \* per-attribute requests sent in the running pass
    topAllAuth,      \* every top-level response of the pass was auth
    subsAllOk,       \* every sub-response of the pass carried its attribute
    allAuth,         \* every response of the call was auth
    subOutcome,      \* what the code did with the last sub-response
    lastObtained,    \* the last response a query of the call obtained
    excepted         \* the call ended in its except clause

retrieveVars ==
    << clock, elapsed, last_reboot, pc, do_top_query, retries, needed, depth,
       should_reboot, response, tries, attr, sub_response, built_response,
       ret, rebootLog, callReboots, callQueries, openAtCall, sawRebootable, topCount,
       subCount, topAllAuth, subsAllOk, allAuth, subOutcome, lastObtained,
       excepted >>


VARIABLES
    spc,             \* where the KumoCloudV3 client is
    access_token,    \* self._access_token
    refresh_token,   \* self._refresh_token
    issued,          \* token strings the server issued so far
    cancel_event,    \* self._cancel_event
    serials_needed,  \* argument of _socketio_session
    timeout_secs,    \* argument
    retried,         \* argument _retried
    sid,             \* unset, None or sid
    passwords,       \* local of the running attempt
    extractFor,      \* the poll whose response text is being scanned
    messagesLeft,    \* messages of that text still to scan
    sawPing,         \* a message of that text was "2"
    mono,            \* time.monotonic(), in seconds
    deadline,        \* local
    poll_count,      \* local
    pollTimeout,     \* timeout of the poll GET in flight
    waited,          \* seconds the poll GET in flight has waited
    result,          \* what get_passwords_via_websocket returned
    \* history of the run, read by the properties only
    sessionRaised,   \* the call ended in the except clause of line 177
    handshakeLog,    \* v of the access token of each handshake of the call
    refreshCalls,    \* refresh() calls made by the call
    refreshedTo,     \* v of the access token the last refresh stored
    sent,            \* the kinds of POST the running attempt has issued
    rejectedAgain,   \* the retried attempt was answered "44"
    firstPw,         \* first password accepted per serial in the attempt
    overwritten,     \* an accepted event replaced a password already held
    pollsAfterCancel,\* poll GETs of the loop issued with the flag set
    brokeOnCancel,   \* the loop ended on `if self._cancel_event.is_set()`
    unansweredPing   \* a "2" was received in the attempt and no "3" sent since

tokenVars == << access_token, refresh_token, issued >>
argVars == << serials_needed, timeout_secs >>
attemptVars == << retried, sid, passwords, sent, rejectedAgain, firstPw,
                  overwritten >>
scanVars == << extractFor, messagesLeft, sawPing >>
loopVars == << mono, deadline, poll_count, pollTimeout, waited,
               pollsAfterCancel, brokeOnCancel >>
outVars == << result, sessionRaised >>
histVars == << handshakeLog, refreshCalls, refreshedTo, unansweredPing >>

sessionVars ==
    << spc, cancel_event, tokenVars, argVars, attemptVars, scanVars, loopVars,
       outVars, histVars >>


(***************************************************************************)
(* KumoCloudV3._get: one authenticated GET of the REST API.                *)
(***************************************************************************)
\* What one HTTP GET can answer: 200 with a JSON body, 200 with a body that
\* is not JSON, 401, any other error status.
GetStatuses == { "ok_json", "ok_badjson", "401", "error" }

VARIABLES
    gpc,             \* idle, first, refresh, second, finish, done
    getStatus,       \* resp: the status of the last reply, "none" before it
    getResult,       \* unset, None, data, or raised
    \* history of the run, read by the properties only
    getLog,          \* v of the access token carried by each GET of the call
    getRefreshes,    \* refresh() calls made by the call
    getRefreshed,    \* refresh() returned True
    firstStatus,     \* the status of the first reply of the call
    refreshFrom      \* the tokens stored when refresh() was called

getVars ==
    << gpc, getStatus, getResult, getLog, getRefreshes, getRefreshed,
       firstStatus, refreshFrom >>

(***************************************************************************)
(* probe_candidate_ips (py_kumo_discovery.py).                             *)
(***************************************************************************)
Addresses == { "a", "b" }

\* The candidate_ips lists: any order, repetitions allowed.
RECURSIVE ListsUpTo(_, _)
ListsUpTo(S, n) ==
    IF n = 0 THEN { << >> }
    ELSE LET shorter == ListsUpTo(S, n - 1)
         IN  shorter \cup { Append(l, x) : l \in shorter, x \in S }

\* The one-to-one maps of the serials in S to addresses.
InjectiveMaps(S) ==
    { f \in [S -> Addresses] : \A s, t \in S : f[s] = f[t] => s = t }

VARIABLES
    ppc,               \* idle, outer, inner, done
    devices,           \* the serials of the argument `devices`
    device_creds,      \* those whose credentials decode
    candidate_ips,     \* argument
    ipIndex,           \* position of `ip` in candidate_ips
    unmatched_serials, \* local
    toTry,             \* what the inner loop still has of list(unmatched_serials)
    probeResult,       \* the local `result`, then the return value
    \* history of the run, read by the properties only
    home,              \* the address each credentialed device lives at
    honest,            \* every probe so far succeeded exactly at home
    probes,            \* probes sent by the call
    probedBoundCred,   \* a probe carried a credential already bound
    probedBoundAddr,   \* a probe went to an address already bound
    probedAfterAll     \* a probe was sent with every serial bound

probeVars ==
    << ppc, devices, device_creds, candidate_ips, ipIndex, unmatched_serials,
       toTry, probeResult, home, honest, probes, probedBoundCred,
       probedBoundAddr, probedAfterAll >>

(***************************************************************************)
(* KumoCloudAccount: the units it knows and the raw cached dictionary.     *)
(* A unit is a record of the fields password, cryptoSerial and address;    *)
(* "" is a field that is absent, None or empty.                            *)
(***************************************************************************)
CredFields == { "password", "cryptoSerial" }

UnitFields == CredFields \cup { "address" }

\* Field values: what the V2 cloud or the cache gave, what the V3 cloud
\* gives, and an address found by probing.
FieldValues == { "", "old", "new" }

Units == [UnitFields -> FieldValues]

\* The devices get_all_device_credentials can return: for each serial it
\* found, a record with password and cryptoSerial, either possibly "".
V3Devices ==
    UNION { [S -> [CredFields -> { "", "new" }]] : S \in SUBSET Serials }

\* The maps probe_candidate_ips can return for the serials in S: some of
\* them, each with a candidate address.
Matches(S) == UNION { [T -> { "new" }] : T \in SUBSET S }

\* The zoneTable a fetch from the V2 cloud, or a cached dictionary, holds.
RawChoices == UNION { [S -> [UnitFields -> { "", "old" }]] : S \in SUBSET Serials }

\* What requests.post of the V2 login does: a reply with an ok status and
\* the dictionary, no reply within the timeouts (Timeout), a refused
\* connection (ConnectionError), a reply with an error status.
LoginOutcomes == { "ok", "timeout", "refused", "error" }

\* The methods of the account that start with _fetch_if_needed.
Accessors ==
    { "try_setup", "get_all_units", "get_name", "get_address",
      "get_credentials" }

VARIABLES
    apc,             \* idle, fetched (_fetch_if_needed has returned), returned
    need_fetch,      \* self._need_fetch
    have_dict,       \* self._kumo_dict is a dictionary, not None
    units,           \* self._units: serial -> unit
    raw,             \* the zoneTable entries of self._kumo_dict
    acctRet,         \* what the last method returned, or raised
    \* history of the run, read by the properties only
    lastOp,          \* none, fetch, supplement or v3only: the last operation
    loginFailed,     \* a V2 login of this account failed
    unitsBefore,     \* self._units as that operation found them
    rawBefore,       \* the raw entries as that operation found them
    probedFor,       \* the devices the last V3-only setup had probed for
    v3Runs           \* times _supplement_with_v3 went to the V3 cloud

accountVars ==
    << apc, need_fetch, have_dict, units, raw, acctRet, lastOp, loginFailed,
       unitsBefore, rawBefore, probedFor, v3Runs >>


(***************************************************************************)
(* merge (py_kumo.py, lines 20-32) on nested mappings.  A value is a leaf  *)
(* <<"leaf", x>> or a mapping <<"map", f>>, f a function from some keys to *)
(* values.                                                                 *)
(***************************************************************************)
MergeKeys == { "r", "k" }

Leaves == { << "leaf", x >> : x \in { 1, 2 } }

\* The mappings over some of MergeKeys whose value at "r" is taken from Rs
\* and whose value at "k" is a leaf.
MappingsOver(Rs) ==
    { << "map", f >> :
        f \in UNION { { g \in [K -> Rs \cup Leaves] :
                          "k" \in K => g["k"] \in Leaves } :
                      K \in SUBSET MergeKeys } }

\* The mappings that nest at most n mappings below them, along "r" as the
\* replies of a unit do.
RECURSIVE MappingsUpTo(_)
MappingsUpTo(n) ==
    IF n = 0 THEN MappingsOver(Leaves)
    ELSE MappingsOver(Leaves \cup MappingsUpTo(n - 1))

MergeInputs == MappingsUpTo(MaxNesting)

\* isinstance(x, MutableMapping)
IsMapping(x) == x[1] = "map"

RECURSIVE MergeMappings(_, _)

\* d[key] = merge(d, v[key]): the recursion merges into the parent.
MergeIntoParent(d, v) ==
    << "map",
       [key \in DOMAIN d[2] \cup DOMAIN v[2] |->
          IF key \notin DOMAIN v[2] THEN d[2][key]
          ELSE IF key \in DOMAIN d[2] /\ IsMapping(d[2][key]) /\ IsMapping(v[2][key])
               THEN MergeMappings(d, v[2][key])
               ELSE v[2][key]] >>

\* merge(d, v): for key in v: if key in d and both values are mappings,
\* d[key] = merge(d[key], v[key]), else d[key] = v[key]; return d
MergeMappings(d, v) ==
    << "map",
       [key \in DOMAIN d[2] \cup DOMAIN v[2] |->
          IF key \notin DOMAIN v[2] THEN d[2][key]
          ELSE IF key \in DOMAIN d[2] /\ IsMapping(d[2][key]) /\ IsMapping(v[2][key])
               THEN MergeMappings(d[2][key], v[2][key])
               ELSE v[2][key]] >>

VARIABLES
    mpc,             \* idle, once, twice
    merge_d,         \* argument d, then the dict d is after each call
    merge_v,         \* argument v
    mergedOnce       \* the value of merge(d, v)

mergeVars == << mpc, merge_d, merge_v, mergedOnce >>


(***************************************************************************)
(* PyKumoBase._token and PyKumoBase._request (py_kumo_base.py), and        *)
(* _compute_token (py_kumo_discovery.py).  Bytes are numbers in 0..255,    *)
(* byte strings are sequences indexed from 1: Python's b[i] is b[i + 1].   *)
(***************************************************************************)
\* The byte strings of n bytes the model draws: byte i is i * k mod 256.
BytesOfLen(n) == { [i \in 1..n |-> (i * k) % 256] : k \in { 1, 7 } }

\* self._security['crypto_serial'], self._security['password'], post_data
CryptoSerials == UNION { BytesOfLen(n) : n \in 0..MaxSerialLen }

Payloads == UNION { BytesOfLen(n) : n \in 0..MaxPayload }

RECURSIVE SumBytes(_)
SumBytes(b) == IF b = << >> THEN 0 ELSE b[1] + SumBytes(Tail(b))

\* hashlib.sha256(b).digest(): DigestLen bytes that depend on b.  The
\* compression function is not modelled; byte i of the digest is taken
\* from the sum and the length of b.
Sha256(b) ==
    [i \in 1..DigestLen |-> (SumBytes(b) * i + Len(b) + i) % 256]

\* .hexdigest(): two hexadecimal digits, 0..15, for each byte of the digest
HexDigest(b) ==
    [j \in 1..(2 * DigestLen) |->
        LET byte == Sha256(b)[(j + 1) \div 2]
        IN  IF j % 2 = 1 THEN byte \div 16 ELSE byte % 16]

\* W_PARAM (const.py, line 5)
W_PARAM ==
    << 68, 199, 50, 131, 180, 152, 212, 50, 255, 37, 245, 200, 224,
       106, 1, 106, 239, 147, 30, 104, 240, 160, 14, 167, 16, 227,
       110, 99, 56, 251, 34, 219 >>

\* The bytearray `intermediate` of _token after lines 52-59, for a
\* crypto_serial of nine bytes or more.
Intermediate(data_hash, crypto_serial) ==
    [i \in 1..IntermediateLen |->
        IF i <= 32 THEN W_PARAM[i]
        ELSE IF i <= 64 THEN data_hash[i - 32]
        ELSE IF i = 65 THEN 8
        ELSE IF i = 66 THEN 64
        ELSE IF i = 80 THEN crypto_serial[9]
        ELSE IF i \in 81..84 THEN crypto_serial[i - 80 + 4]
        ELSE IF i \in 85..88 THEN crypto_serial[i - 84]
        ELSE 0]

\* What a token computation gives: the 64 digits, or the exception.
Hex(digits) == [exc |-> "none", hex |-> digits]

Raised(e) == [exc |-> e, hex |-> << >>]

NotComputed == Raised("none")

\* The token computation were it to read the bytes 0..7 of crypto_serial
\* only, byte 7 for intermediate[79].
TokenOfEightBytes(password, crypto_serial, post_data) ==
    IF Len(crypto_serial) < 8 THEN Raised("IndexError")
    ELSE Hex(HexDigest(Intermediate(Sha256(password \o post_data),
                                    SubSeq(crypto_serial, 1, 8)
                                        \o << crypto_serial[8] >>)))

\* PyKumoBase._token(post_data) (py_kumo_base.py, lines 46-63): the token,
\* or IndexError from crypto_serial[8] (line 57) when crypto_serial has
\* fewer than nine bytes.
Token(password, crypto_serial, post_data) ==
    IF Len(crypto_serial) < 9 THEN Raised("IndexError")
    ELSE Hex(HexDigest(Intermediate(Sha256(password \o post_data),
                                    crypto_serial)))

\* A token computation that hashes the password without the payload.
ComputeTokenWithoutPayload(password, crypto_serial, post_data) ==
    IF Len(crypto_serial) < 9 THEN Raised("IndexError")
    ELSE Hex(HexDigest(Intermediate(Sha256(password), crypto_serial)))

\* _compute_token(password, crypto_serial, post_data) (py_kumo_discovery.py,
\* lines 95-112): the same computation without an instance.
ComputeToken(password, crypto_serial, post_data) ==
    LET data_hash == Sha256(password \o post_data)
    IN  IF Len(crypto_serial) < 9 THEN Raised("IndexError")
        ELSE Hex(HexDigest(Intermediate(data_hash, crypto_serial)))

\* What session.put and response.json() of _request do: a reply that
\* parses as JSON, no reply within the timeouts (Timeout), a refused
\* connection (ConnectionError), a reply that is not JSON (ValueError).
PutOutcomes == { "json", "timeout", "refused", "nonjson" }

\* `except Timeout` catches the timeout only.
RequestCatchesTimeoutOnly(o) == o = "timeout"

\* The exceptions of the try of _request that its handlers catch (lines
\* 85-88): `except Timeout` and `except Exception`.
RequestCatches(o) == o \in { "timeout", "refused", "nonjson" }

VARIABLES
    qpc,             \* idle, token, put, done
    q_address,       \* self._address is set
    q_password,      \* self._security['password']
    q_serial,        \* self._security['crypto_serial']
    post_data,       \* argument of _request, of _compute_token
    token,           \* what _token gave
    ctoken,          \* what _compute_token gave
    q_outcome,       \* none, or what the PUT did
    q_ret            \* none, empty ({}), json, or raised

requestVars ==
    << qpc, q_address, q_password, q_serial, post_data, token, ctoken,
       q_outcome, q_ret >>

(***************************************************************************)
(* update_status of PyKumo (py_kumo.py) and of PyKumoStation               *)
(* (py_kumo_station.py).  What update_status does with a response depends  *)
(* on its shape along the path it subscripts, e.g.                         *)
(* response['r']['indoorUnit']['status']:                                  *)
(*   full        a mapping that holds the path and the fields wanted       *)
(*   bare        a mapping that holds the path, the fields wanted missing  *)
(*   nokey       a mapping without a key of the path: {} after a           *)
(*               transport failure, {'_api_error': ...}, {'r': {}}         *)
(*   nonmapping  a JSON value that is not an object, such as [] or null,   *)
(*               or a mapping with such a value where the path goes on     *)
(***************************************************************************)
ReplyShapes == { "full", "bare", "nokey", "nonmapping" }

\* response[k1][k2][k3], and the methods called on what it gives: the value,
\* KeyError, or TypeError (AttributeError for a method of a value that is
\* not a mapping).
Subscript(shape) ==
    CASE shape = "nokey" -> "KeyError"
      [] shape = "nonmapping" -> "TypeError"
      [] OTHER -> "value"

\* `except KeyError` of the status, sensors, profile and adapter blocks
CatchesKeyError == { "KeyError" }

\* `except (KeyError, TypeError)` of the MHK2 block (py_kumo.py, line 405)
CatchesMhk2 == { "KeyError", "TypeError" }

UnitClasses == { "PyKumo", "PyKumoStation" }

VARIABLES
    upc,             \* unbuilt, idle, status, sensors, profile, adapter, mhk2, done
    u_class,         \* the class of the unit
    u_status,        \* self._status: none ({}), bare (no 'mode'), full
    u_expired,       \* now - self._last_status_update > CACHE_INTERVAL_SECONDS
    u_s,             \* s of the loop over range(POSSIBLE_SENSORS)
    u_sensors,       \* len(self._sensors)
    u_profile,       \* self._profile: none ({}), bare, full
    u_ret,           \* none, True, False, or raised
    \* history of the run, read by the properties only
    statusAtCall,    \* self._status when update_status was called
    u_failedAt       \* none, or the block whose exception ended the call

statusVars ==
    << upc, u_class, u_status, u_expired, u_s, u_sensors, u_profile, u_ret,
       statusAtCall, u_failedAt >>

(***************************************************************************)
(* UnitSchedule.fetch and UnitSchedule.push, in schedule.py and in         *)
(* py_kumo.py (the class PyKumo.get_unit_schedule builds).                 *)
(***************************************************************************)
ScheduleModules == { "schedule.py", "py_kumo.py" }

\* What _request returns to push for a batch: the reply of a unit that
\* took the batch, {'_api_error': ...}, or {} after a transport failure.
PushReplies == { "accepted", "api_error", "empty" }

\* '_api_error' in response
HasApiError(reply) == reply = "api_error"

\* The except clause of fetch: schedule.py raises ValueError from it,
\* py_kumo.py returns.
FetchHandler(module) == IF module = "schedule.py" THEN "raise" ELSE "return"

VARIABLES
    hpc,             \* unbuilt, idle, fetching, pushing, clearing, done
    h_module,        \* the module of the UnitSchedule class
    events_by_slot,  \* len(self.events_by_slot); the slots are 1..len
    active_slots,    \* the slots whose event is active or in use
    batch_size,      \* argument of push
    start_index,     \* of the loop of push
    h_op,            \* none, fetch or push: the method called
    h_ret,           \* none, returned or raised
    \* history of the run, read by the properties only
    lacking,         \* the response to fetch did not hold the events
    batchFailed,     \* the request of a batch of this push failed
    sentAfterFailed  \* a batch was sent after a failed one

scheduleVars ==
    << hpc, h_module, events_by_slot, active_slots, batch_size, start_index, h_op, h_ret,
       lacking, batchFailed, sentAfterFailed >>

(***************************************************************************)
(* Several threads calling _get on one KumoCloudV3 client                  *)
(* (py_kumo_cloud_account_v3.py).  A token is the number of the generation *)
(* the server issued it in; the server accepts the refresh token of the    *)
(* last generation only and issues the next generation in exchange.        *)
(***************************************************************************)
Workers == 1..MaxWorkers

VARIABLES
    wpc,             \* per worker: idle, rejected, refreshing, retry, done
    shared_access,   \* self._access_token
    shared_refresh,  \* self._refresh_token
    served,          \* the generation the server issued last
    submitted,       \* per worker: the refresh token its POST carries
    w_ret,           \* per worker: none, None or data
    \* history of the run, read by the properties only
    spentSubmitted   \* the server was handed a refresh token already exchanged

workerVars ==
    << wpc, shared_access, shared_refresh, served, submitted, w_ret,
       spentSubmitted >>

(***************************************************************************)
(* KumoCloudAccount.make_pykumos (py_kumo_cloud_account.py).  A name is    *)
(* << base, n >>: the text base when n = 0, and base followed by " (n)"    *)
(* when n > 0.  A unit is known by its position in the list of the         *)
(* account's serials.                                                      *)
(***************************************************************************)
LabelBases == { "A", "B" }

\* The labels the cloud gives: bare, or ending in " (1)" or " (2)" already.
Labels == LabelBases \X (0..2)

RECURSIVE LabelLists(_)
LabelLists(n) ==
    IF n = 0 THEN { << >> }
    ELSE LET shorter == LabelLists(n - 1)
         IN  shorter \cup { Append(l, x) : l \in { s \in shorter : Len(s) = n - 1 },
                                            x \in Labels }

\* re.match(r'(.*) \(([0-9]*)\)', name)
MatchesNumbered(name) == name[2] > 0

\* m.group(1) + ' ({})'.format(int(m.group(2)) + 1)
NextNumbered(name) == << name[1], name[2] + 1 >>

\* name + ' (1)' and name + ' (2)', for a name that does not match
WithNumber(name, n) == << name[1], n >>

\* kumos without name, as kumos.pop(name) leaves it
Popped(d, name) == [x \in DOMAIN d \ { name } |-> d[x]]

VARIABLES
    npc,             \* idle, loop, done
    unit_labels,     \* the label of each unit, in the order of get_all_units()
    unit_index,      \* the units the loop has been through
    kumos            \* the local kumos: name -> unit

nameVars == << npc, unit_labels, unit_index, kumos >>
(***************************************************************************)
(* What each component leaves alone.                                       *)
(***************************************************************************)
sessionButTokens ==
    << spc, cancel_event, argVars, attemptVars, scanVars, loopVars, outVars,
       histVars >>

notRetrieveVars ==
    << sessionVars, getVars, probeVars, accountVars, mergeVars, requestVars,
       statusVars, scheduleVars, workerVars, nameVars >>

notSessionVars ==
    << retrieveVars, getVars, probeVars, accountVars, mergeVars,
       requestVars, statusVars, scheduleVars, workerVars, nameVars >>

notGetVars ==
    << retrieveVars, probeVars, accountVars, mergeVars, requestVars,
       statusVars, scheduleVars, workerVars, nameVars >>

notProbeVars ==
    << retrieveVars, sessionVars, getVars, accountVars, mergeVars,
       requestVars, statusVars, scheduleVars, workerVars, nameVars >>

notAccountVars ==
    << retrieveVars, sessionVars, getVars, probeVars, mergeVars,
       requestVars, statusVars, scheduleVars, workerVars, nameVars >>

notMergeVars ==
    << retrieveVars, sessionVars, getVars, probeVars, accountVars,
       requestVars, statusVars, scheduleVars, workerVars, nameVars >>

notRequestVars ==
    << retrieveVars, sessionVars, getVars, probeVars, accountVars,
       mergeVars, statusVars, scheduleVars, workerVars, nameVars >>

notStatusVars ==
    << retrieveVars, sessionVars, getVars, probeVars, accountVars,
       mergeVars, requestVars, scheduleVars, workerVars, nameVars >>

notScheduleVars ==
    << retrieveVars, sessionVars, getVars, probeVars, accountVars,
       mergeVars, requestVars, statusVars, workerVars, nameVars >>

notWorkerVars ==
    << retrieveVars, sessionVars, getVars, probeVars, accountVars,
       mergeVars, requestVars, statusVars, scheduleVars, nameVars >>

notNameVars ==
    << retrieveVars, sessionVars, getVars, probeVars, accountVars,
       mergeVars, requestVars, statusVars, scheduleVars, workerVars >>

vars ==
    << retrieveVars, sessionVars, getVars, probeVars, accountVars,
       mergeVars, requestVars, statusVars, scheduleVars, workerVars,
       nameVars >>
\* PyKumo.__init__: self._last_reboot = None
InitRetrieve ==
    /\ clock = 0
    /\ elapsed = 0
    /\ last_reboot = << >>
    /\ pc = "idle"
    /\ do_top_query = TRUE
    /\ retries = MaxRetries
    /\ needed = << >>
    /\ depth = 0
    /\ should_reboot = FALSE
    /\ response = NoneResp
    /\ tries = 0
    /\ attr = 1
    /\ sub_response = UnboundResp
    /\ built_response = Resp("ok", {})
    /\ ret = NoneResp
    /\ rebootLog = << >>
    /\ callReboots = 0
    /\ callQueries = 0
    /\ openAtCall = TRUE
    /\ sawRebootable = FALSE
    /\ topCount = 0
    /\ subCount = 0
    /\ topAllAuth = TRUE
    /\ subsAllOk = TRUE
    /\ allAuth = TRUE
    /\ subOutcome = "none"
    /\ lastObtained = EmptyResp
    /\ excepted = FALSE

\* A client whose window is closed at 30 minutes sharp.
RebootDueInclusive(lr, now) == lr = << >> \/ lr[1] <= now - RebootWindow

\* A client that reboots whenever a reboot is flagged.
RebootDueAlways(lr, now) == TRUE

\* not self._last_reboot or self._last_reboot < now - timedelta(minutes=30)
RebootDue(lr, now) == lr = << >> \/ lr[1] < now - RebootWindow

\* if not should_reboot and (not response or self._retryable_response(response))
UseFallback(sr, r) == ~sr /\ (~Truthy(r) \/ RetryableResponse(r))

\* Where a pass goes once the top-level loop is over.
AfterTop(sr, r, nd) ==
    IF UseFallback(sr, r) /\ nd # << >> THEN "sub" ELSE "finish"

\* while tries < retries (top-level loop)
TopLoopGoesOnOffByOne(t, rt) == t <= rt

TopLoopGoesOn(t, rt) == t < rt

\* except Exception as e: the clause catches whatever the try block raises.
CatchesNothing == FALSE

CatchesException == TRUE

\* The try block raised: the except clause logs and falls to `return response`.
Except(r) ==
    /\ pc' = IF CatchesException THEN "done" ELSE "raised"
    /\ ret' = r
    /\ excepted' = TRUE

\* The locals of a fresh pass (lines 241-256), and where it starts.
BeginPass(dtq, rt, nd) ==
    /\ should_reboot' = FALSE
    /\ response' = NoneResp
    /\ tries' = 0
    /\ attr' = 1
    /\ sub_response' = UnboundResp
    /\ built_response' = Resp("ok", {})
    /\ topCount' = 0
    /\ subCount' = 0
    /\ topAllAuth' = TRUE
    /\ subsAllOk' = TRUE
    /\ subOutcome' = "none"
    /\ elapsed' = 0
    /\ pc' = IF dtq /\ TopLoopGoesOn(0, rt) THEN "top"
             ELSE AfterTop(FALSE, NoneResp, nd)

\* A caller enters _retrieve_attributes(query_path, needed, do_top_query, retries).
CallRetrieve ==
    /\ pc = "idle"
    /\ UNCHANGED notRetrieveVars
    /\ \E dtq \in BOOLEAN, rt \in 0..MaxRetries, nd \in NeededChoices :
        /\ do_top_query' = dtq
        /\ retries' = rt
        /\ needed' = nd
        /\ BeginPass(dtq, rt, nd)
    /\ depth' = 0
    /\ callReboots' = 0
    /\ callQueries' = 0
    /\ openAtCall' = RebootDue(last_reboot, clock)
    /\ sawRebootable' = FALSE
    /\ allAuth' = TRUE
    /\ lastObtained' = EmptyResp
    /\ excepted' = FALSE
    /\ ret' = NoneResp
    /\ UNCHANGED << clock, last_reboot, rebootLog >>

\* One iteration of the top-level loop (lines 245-255).
TopQuery ==
    /\ pc = "top"
    /\ UNCHANGED notRetrieveVars
    /\ \E r \in TopResponses(needed) :
        /\ response' = r
        /\ lastObtained' = r
        /\ topCount' = topCount + 1
        /\ callQueries' = callQueries + 1
        /\ topAllAuth' = (topAllAuth /\ r.kind = "auth")
        /\ UNCHANGED subsAllOk
        /\ allAuth' = (allAuth /\ r.kind = "auth")
        /\ sawRebootable' = (sawRebootable \/ (IsDict(r) /\ RebootableResponse(r)))
        /\ IF ~IsDict(r)
           THEN /\ Except(r)
                /\ UNCHANGED << should_reboot, tries >>
           ELSE IF RebootableResponse(r)
           THEN /\ should_reboot' = TRUE
                /\ pc' = AfterTop(TRUE, r, needed)
                /\ tries' = 0
                /\ UNCHANGED << ret, excepted >>
           ELSE IF RetryableResponse(r)
           THEN /\ pc' = IF TopLoopGoesOn(tries + 1, retries) THEN "top"
                         ELSE AfterTop(FALSE, r, needed)
                /\ tries' = IF TopLoopGoesOn(tries + 1, retries) THEN tries + 1 ELSE 0
                /\ UNCHANGED << should_reboot, ret, excepted >>
           ELSE /\ pc' = AfterTop(FALSE, r, needed)
                /\ tries' = 0
                /\ UNCHANGED << should_reboot, ret, excepted >>
    /\ UNCHANGED << clock, elapsed, last_reboot, do_top_query, retries, needed,
                    depth, attr, sub_response, built_response, rebootLog,
                    callReboots, openAtCall, subCount, subOutcome >>

\* The response the fallback loop classifies after a sub-query (lines 267, 270).
SubClassified(top, sub) == top

\* The statements after the while loop of one attribute (lines 277-282) and the
\* head of the for loop (lines 259-261), for sub-response s and flag sr.
AfterAttribute(s, sr) ==
    IF ContainsAttr(s, needed[attr]) /\ ~IsDict(s)
    THEN \* merge raises on a value that is not a mapping
         /\ Except(response)
         /\ UNCHANGED << built_response, attr, tries >>
    ELSE /\ built_response' = IF ContainsAttr(s, needed[attr])
                                THEN merge(built_response, s)
                                ELSE built_response
         /\ IF attr = Len(needed) \/ sr
            THEN pc' = "finish" /\ attr' = attr
            ELSE pc' = "sub" /\ attr' = attr + 1
         /\ tries' = 0
         /\ UNCHANGED << ret, excepted >>

\* One iteration of the while loop of one attribute (lines 265-275).
SubQuery ==
    /\ pc = "sub"
    /\ UNCHANGED notRetrieveVars
    /\ tries < retries
    /\ \E s \in SubResponses(needed[attr]) :
        LET c == SubClassified(response, s) IN
        /\ sub_response' = s
        /\ lastObtained' = s
        /\ subCount' = subCount + 1
        /\ callQueries' = callQueries + 1
        /\ allAuth' = (allAuth /\ s.kind = "auth")
        /\ subsAllOk' = (subsAllOk /\ s = Resp("ok", {needed[attr]}))
        /\ sawRebootable' = (sawRebootable \/ (IsDict(s) /\ RebootableResponse(s)))
        /\ IF ~IsDict(c)
           THEN /\ Except(response)
                /\ subOutcome' = "raise"
                /\ UNCHANGED << should_reboot, built_response, attr, tries >>
           ELSE IF RebootableResponse(c)
           THEN /\ should_reboot' = TRUE
                /\ subOutcome' = "reboot"
                /\ AfterAttribute(s, TRUE)
           ELSE IF RetryableResponse(c)
           THEN /\ subOutcome' = "retry"
                /\ UNCHANGED should_reboot
                /\ IF tries + 1 < retries
                   THEN /\ tries' = tries + 1
                        /\ UNCHANGED << pc, attr, built_response, ret, excepted >>
                   ELSE AfterAttribute(s, FALSE)
           ELSE /\ subOutcome' = "accept"
                /\ UNCHANGED should_reboot
                /\ AfterAttribute(s, FALSE)
    /\ UNCHANGED << clock, elapsed, last_reboot, do_top_query, retries, needed,
                    depth, response, rebootLog, callReboots, openAtCall,
                    topCount, topAllAuth >>

\* retries = 0: the while loop of the first attribute does not run and
\* `attribute in str(sub_response)` reads a local that was never assigned.
SubSkip ==
    /\ pc = "sub"
    /\ UNCHANGED notRetrieveVars
    /\ ~(tries < retries)
    /\ Except(response)
    /\ UNCHANGED << clock, elapsed, last_reboot, do_top_query, retries, needed,
                    depth, should_reboot, response, tries, attr, sub_response,
                    built_response, rebootLog, callReboots, callQueries, openAtCall,
                    sawRebootable, topCount, subCount, topAllAuth, subsAllOk, allAuth,
                    subOutcome, lastObtained >>

\* Lines 283-295 and 299: keep the merged result, then reboot and re-enter,
\* or return.
Finish ==
    /\ pc = "finish"
    /\ UNCHANGED notRetrieveVars
    /\ LET resp == IF built_response.attrs # {} THEN built_response ELSE response
           now == clock
       IN IF should_reboot /\ RebootDue(last_reboot, now)
          THEN /\ last_reboot' = << now >>
               /\ rebootLog' = Append(rebootLog, now)
               /\ callReboots' = callReboots + 1
               /\ depth' = depth + 1
               /\ BeginPass(do_top_query, retries, needed)
               /\ UNCHANGED << ret, excepted >>
          ELSE /\ pc' = "done"
               /\ ret' = resp
               /\ UNCHANGED << last_reboot, rebootLog, callReboots, depth,
                               should_reboot, response, tries, attr,
                               sub_response, built_response, topCount,
                               subCount, topAllAuth, subsAllOk, subOutcome, elapsed,
                               excepted >>
    /\ UNCHANGED << clock, do_top_query, retries, needed, openAtCall,
                    sawRebootable, allAuth, lastObtained, callQueries >>

\* The caller takes the returned value: the frame of the call is gone and the
\* client, which keeps _last_reboot, is ready for another call.
ReturnToCaller ==
    /\ pc = "done"
    /\ UNCHANGED notRetrieveVars
    /\ pc' = "idle"
    /\ do_top_query' = TRUE
    /\ retries' = MaxRetries
    /\ needed' = << >>
    /\ depth' = 0
    /\ should_reboot' = FALSE
    /\ response' = NoneResp
    /\ tries' = 0
    /\ attr' = 1
    /\ sub_response' = UnboundResp
    /\ built_response' = Resp("ok", {})
    /\ ret' = NoneResp
    /\ elapsed' = 0
    /\ callReboots' = 0
    /\ callQueries' = 0
    /\ openAtCall' = TRUE
    /\ sawRebootable' = FALSE
    /\ topCount' = 0
    /\ subCount' = 0
    /\ topAllAuth' = TRUE
    /\ subsAllOk' = TRUE
    /\ allAuth' = TRUE
    /\ subOutcome' = "none"
    /\ lastObtained' = EmptyResp
    /\ excepted' = FALSE
    /\ UNCHANGED << clock, last_reboot, rebootLog >>

\* Ten minutes pass: at any time between calls, and within a pass as long as
\* the pass lasts.
Tick ==
    /\ clock < MaxClock
    /\ UNCHANGED notRetrieveVars
    /\ \/ pc = "idle"
       \/ pc \in {"top", "sub", "finish"} /\ elapsed < MaxPassTicks
    /\ clock' = clock + 1
    /\ elapsed' = IF pc = "idle" THEN 0 ELSE elapsed + 1
    /\ UNCHANGED << last_reboot, pc, do_top_query, retries, needed, depth,
                    should_reboot, response, tries, attr, sub_response,
                    built_response, ret, rebootLog, callReboots, callQueries, openAtCall,
                    sawRebootable, topCount, subCount, topAllAuth, subsAllOk, allAuth,
                    subOutcome, lastObtained, excepted >>

\* The wall clock is set back (datetime.now() is not monotonic).
ClockBack ==
    /\ pc = "idle"
    /\ UNCHANGED notRetrieveVars
    /\ clock > 0
    /\ clock' = clock - 1
    /\ UNCHANGED << elapsed, last_reboot, pc, do_top_query, retries, needed,
                    depth, should_reboot, response, tries, attr, sub_response,
                    built_response, ret, rebootLog, callReboots, callQueries, openAtCall,
                    sawRebootable, topCount, subCount, topAllAuth, subsAllOk, allAuth,
                    subOutcome, lastObtained, excepted >>

\* KumoCloudV3.__init__
InitSession ==
    /\ spc = "new"
    /\ access_token = NoToken
    /\ refresh_token = NoToken
    /\ issued = 0
    /\ cancel_event = FALSE
    /\ serials_needed = {}
    /\ timeout_secs = 0
    /\ retried = FALSE
    /\ sid = "unset"
    /\ passwords = EmptyMap
    /\ extractFor = "none"
    /\ messagesLeft = 0
    /\ sawPing = FALSE
    /\ mono = 0
    /\ deadline = 0
    /\ poll_count = 0
    /\ pollTimeout = 0
    /\ waited = 0
    /\ result = EmptyMap
    /\ sessionRaised = FALSE
    /\ handshakeLog = << >>
    /\ refreshCalls = 0
    /\ refreshedTo = 0
    /\ sent = {}
    /\ rejectedAgain = FALSE
    /\ firstPw = EmptyMap
    /\ overwritten = FALSE
    /\ pollsAfterCancel = 0
    /\ brokeOnCancel = FALSE
    /\ unansweredPing = FALSE

\* KumoCloudV3.login
Login ==
    /\ spc = "new"
    /\ spc' = "ready"
    /\ \/ UNCHANGED tokenVars          \* the POST raised, or an error status
       \/ \E tp \in TokenPairs(issued + 1) :
            /\ access_token' = tp[1]
            /\ refresh_token' = tp[2]
            /\ issued' = issued + 1
    /\ UNCHANGED << cancel_event, argVars, attemptVars, scanVars, loopVars,
                    outVars, histVars >>
    /\ UNCHANGED notSessionVars

\* `return passwords` of _socketio_session, handed on by line 176
ReturnPasswords(pw) ==
    /\ spc' = "returned"
    /\ result' = pw
    /\ sessionRaised' = FALSE

\* except Exception as ex: ... return {} of get_passwords_via_websocket
\* (lines 177-179) catches what _socketio_session raises.
SessionCatchesNothing == FALSE

SessionCatchesException == TRUE

\* An exception raised in _socketio_session: caught, the call returns {};
\* uncaught, it would leave the call.
RaiseInSession ==
    /\ spc' = IF SessionCatchesException THEN "returned" ELSE "raised"
    /\ result' = EmptyMap
    /\ sessionRaised' = TRUE

\* The locals of a fresh _socketio_session(serials_needed, timeout_secs, r).
StartSession(r) ==
    /\ spc' = "handshake"
    /\ retried' = r
    /\ sid' = "unset"
    /\ passwords' = EmptyMap
    /\ sent' = {}
    /\ rejectedAgain' = FALSE
    /\ firstPw' = EmptyMap
    /\ overwritten' = FALSE
    /\ unansweredPing' = FALSE

\* get_passwords_via_websocket(device_serials, timeout_secs), lines 169-176
CallGetPasswords ==
    /\ spc = "ready"
    /\ \E ds \in SUBSET Serials, ts \in 0..MaxTimeoutSecs :
        /\ serials_needed' = ds
        /\ timeout_secs' = ts
    /\ IF access_token = NoToken
       THEN /\ ReturnPasswords(EmptyMap)
            /\ UNCHANGED << cancel_event, attemptVars, unansweredPing >>
       ELSE /\ cancel_event' = FALSE
            /\ StartSession(FALSE)
            /\ UNCHANGED outVars
    /\ UNCHANGED << tokenVars, scanVars, loopVars, handshakeLog, refreshCalls,
                    refreshedTo >>
    /\ UNCHANGED notSessionVars

\* 1. Handshake (lines 193-215)
Handshake ==
    /\ spc = "handshake"
    /\ handshakeLog' = Append(handshakeLog, access_token.v)
    /\ \E o \in HandshakeOutcomes :
        CASE o \in {"error", "notok", "no0", "badjson"} ->
                /\ ReturnPasswords(passwords)
                /\ UNCHANGED sid
          [] o = "nonobj" ->
                /\ RaiseInSession
                /\ UNCHANGED sid
          [] o = "nosid" ->
                /\ sid' = "None"
                /\ spc' = "postConnect"
                /\ UNCHANGED outVars
          [] o = "good" ->
                /\ sid' = "sid"
                /\ spc' = "postConnect"
                /\ UNCHANGED outVars
    /\ UNCHANGED << cancel_event, tokenVars, argVars, retried, passwords, sent,
                    rejectedAgain, firstPw, overwritten, scanVars, loopVars,
                    refreshCalls, refreshedTo, unansweredPing >>
    /\ UNCHANGED notSessionVars

\* _post(data) at step `at`, going on to step `to`: the POST is issued, and it
\* returns or raises.
Post(at, data, to) ==
    /\ spc = at
    /\ sent' = sent \cup {data}
    /\ \/ spc' = to /\ UNCHANGED outVars
       \/ RaiseInSession
    /\ UNCHANGED << cancel_event, tokenVars, argVars, retried, sid, passwords,
                    rejectedAgain, firstPw, overwritten, scanVars, histVars >>
    /\ UNCHANGED notSessionVars

\* 2. Namespace connect: _post("40") (line 226)
PostConnect ==
    /\ Post("postConnect", "40", "pollConnect")
    /\ UNCHANGED loopVars

\* if resp.ok and resp.text.startswith("44") and not _retried (line 230)
RejectionHandledAlways(ok, first, rt) == ok /\ StartsWith44(first)

RejectionHandled(ok, first, rt) == ok /\ StartsWith44(first) /\ ~rt

\* resp = _poll() after the connect, and the rejection test (lines 227-230);
\* `first` is the first message of the response text, if any.
PollConnect ==
    /\ spc = "pollConnect"
    /\ \/ RaiseInSession /\ UNCHANGED << rejectedAgain, unansweredPing >>
       \/ \E ok \in BOOLEAN, first \in { << >> } \cup { << m >> : m \in Messages } :
            /\ spc' = IF RejectionHandled(ok, first, retried) THEN "refresh"
                      ELSE "subscribeAccount"
            /\ rejectedAgain' = (retried /\ ok /\ StartsWith44(first))
            /\ unansweredPing' = (ok /\ first # << >> /\ IsPing(first[1]))
            /\ UNCHANGED outVars
    /\ UNCHANGED << cancel_event, tokenVars, argVars, retried, sid, passwords,
                    sent, firstPw, overwritten, scanVars, loopVars,
                    handshakeLog, refreshCalls, refreshedTo >>
    /\ UNCHANGED notSessionVars

\* if self.refresh(): return self._socketio_session(..., _retried=True)
\* else: return passwords (lines 232-235), with KumoCloudV3.refresh
\* (lines 82-105)
RefreshAfterReject ==
    /\ spc = "refresh"
    /\ refreshCalls' = refreshCalls + 1
    /\ IF refresh_token = NoToken
       THEN /\ ReturnPasswords(passwords)
            /\ UNCHANGED << tokenVars, attemptVars, refreshedTo, unansweredPing >>
       ELSE \/ /\ ReturnPasswords(passwords)   \* the POST raised, or error status
               /\ UNCHANGED << tokenVars, attemptVars, refreshedTo, unansweredPing >>
            \/ /\ RaiseInSession               \* resp.json() raised
               /\ UNCHANGED << tokenVars, attemptVars, refreshedTo, unansweredPing >>
            \/ \E tp \in TokenPairs(issued + 1) :
                 /\ access_token' = tp[1]
                 /\ refresh_token' = tp[2]
                 /\ issued' = issued + 1
                 /\ refreshedTo' = tp[1].v
                 /\ IF tp[1] # NoToken
                    THEN StartSession(TRUE) /\ UNCHANGED outVars
                    ELSE ReturnPasswords(passwords)
                         /\ UNCHANGED << attemptVars, unansweredPing >>
    /\ UNCHANGED << cancel_event, argVars, scanVars, loopVars, handshakeLog >>
    /\ UNCHANGED notSessionVars

\* self._get_user_id_from_token() is not None
HasUserId(tok) == tok # NoToken /\ tok.id

\* 3. Account-level subscribe (lines 238-240)
PostSubscribeAccount ==
    /\ HasUserId(access_token)
    /\ Post("subscribeAccount", "subscribeAccount", "pollAccount")
    /\ UNCHANGED loopVars

\* else: _LOGGER.warning("Could not extract user ID ...") (lines 244-245)
SkipSubscribeAccount ==
    /\ spc = "subscribeAccount"
    /\ ~HasUserId(access_token)
    /\ spc' = "subscribeDevices"
    /\ UNCHANGED << cancel_event, tokenVars, argVars, attemptVars, scanVars,
                    loopVars, outVars, histVars >>
    /\ UNCHANGED notSessionVars

\* A session that went from the account subscribe to the force-update
\* frames.
AfterScanPastDevices(what, ping) ==
    CASE what = "account" -> "force"
      [] what = "devices" -> "force"
      [] what = "loop" -> IF ping THEN "pong" ELSE "loopHead"

\* Where the session goes once the text of the poll `what` is scanned
\* (the ping is looked for in the polling loop only, line 288).
AfterScan(what, ping) ==
    CASE what = "account" -> "subscribeDevices"
      [] what = "devices" -> "force"
      [] what = "loop" -> IF ping THEN "pong" ELSE "loopHead"

\* resp = _poll(); if resp.ok: self._extract_passwords(resp.text, ...):
\* the response has an error status, or its text holds n messages, scanned
\* one by one by ScanMessage.
PollThenScan(what) ==
    /\ \/ RaiseInSession /\ UNCHANGED scanVars
       \/ /\ spc' = AfterScan(what, FALSE)
          /\ UNCHANGED << scanVars, outVars >>
       \/ \E n \in 1..MaxMessages :
            /\ spc' = "scan"
            /\ extractFor' = what
            /\ messagesLeft' = n
            /\ sawPing' = FALSE
            /\ UNCHANGED outVars
    /\ UNCHANGED << cancel_event, tokenVars, argVars, attemptVars, loopVars,
                    histVars >>
    /\ UNCHANGED notSessionVars

\* lines 241-243
PollAccount ==
    /\ spc = "pollAccount"
    /\ PollThenScan("account")

\* 4. Subscribe to each device (line 248)
PostSubscribeDevices ==
    /\ Post("subscribeDevices", "subscribeDevices", "pollDevices")
    /\ UNCHANGED loopVars

\* lines 249-251
PollDevices ==
    /\ spc = "pollDevices"
    /\ PollThenScan("devices")

\* One iteration of `for msg in self._split_messages(raw)` (lines 307-327)
\* on the next message of the text, and what follows the last one.
ScanMessage ==
    /\ spc = "scan"
    /\ \E m \in Messages :
        /\ passwords' = ExtractMessage(m, passwords, serials_needed)
        /\ firstPw' = ExtractMessageFirstWins(m, firstPw, serials_needed)
        /\ overwritten' =
              (overwritten \/ (/\ AcceptsEvent(m, serials_needed)
                               /\ m.serial \in DOMAIN firstPw
                               /\ firstPw[m.serial] # m.password))
        /\ sawPing' = (sawPing \/ IsPing(m))
        /\ unansweredPing' = (unansweredPing \/ IsPing(m))
        /\ messagesLeft' = messagesLeft - 1
        /\ spc' = IF messagesLeft = 1
                  THEN AfterScan(extractFor, sawPing \/ IsPing(m))
                  ELSE "scan"
    /\ UNCHANGED << cancel_event, tokenVars, argVars, retried, sid, sent,
                    rejectedAgain, extractFor, loopVars, outVars, handshakeLog,
                    refreshCalls, refreshedTo >>
    /\ UNCHANGED notSessionVars

\* 5. Force adapter_update events (lines 254-256)
PostForce ==
    /\ Post("force", "force_adapter_request", "status")
    /\ UNCHANGED loopVars

\* 6. device_status_v2 (lines 259-261), then deadline and poll_count
\* (lines 264-265)
PostStatus ==
    /\ Post("status", "device_status_v2", "loopHead")
    /\ deadline' = mono + timeout_secs
    /\ poll_count' = 0
    /\ UNCHANGED << mono, pollTimeout, waited, pollsAfterCancel, brokeOnCancel >>

\* if self._cancel_event.is_set(): break
CancelIgnored(flag) == FALSE

CancelObserved(flag) == flag

\* while time.monotonic() < deadline and serials_needed - set(passwords.keys()):
\*     if self._cancel_event.is_set(): break            (lines 266-268)
LoopHead ==
    /\ spc = "loopHead"
    /\ IF mono < deadline /\ serials_needed \ DOMAIN passwords # {}
       THEN IF CancelObserved(cancel_event)
            THEN /\ ReturnPasswords(passwords)
                 /\ brokeOnCancel' = TRUE
            ELSE /\ spc' = "pollIssue"
                 /\ UNCHANGED << outVars, brokeOnCancel >>
       ELSE /\ ReturnPasswords(passwords)
            /\ UNCHANGED brokeOnCancel
    /\ UNCHANGED << cancel_event, tokenVars, argVars, attemptVars, scanVars,
                    mono, deadline, poll_count, pollTimeout, waited,
                    pollsAfterCancel, histVars >>
    /\ UNCHANGED notSessionVars

\* remaining = deadline - time.monotonic(); if remaining <= 0: break;
\* poll_count += 1; _poll(timeout=min(25, remaining + 1)) is issued
\* (lines 270-276)
PollIssue ==
    /\ spc = "pollIssue"
    /\ LET remaining == deadline - mono
       IN IF remaining <= 0
          THEN /\ ReturnPasswords(passwords)
               /\ UNCHANGED << poll_count, pollTimeout, waited, pollsAfterCancel >>
          ELSE /\ spc' = "polling"
               /\ poll_count' = poll_count + 1
               /\ pollTimeout' = Min(PollTimeoutCap, remaining + 1)
               /\ waited' = 0
               /\ pollsAfterCancel' =
                     pollsAfterCancel + (IF cancel_event THEN 1 ELSE 0)
               /\ UNCHANGED outVars
    /\ UNCHANGED << cancel_event, tokenVars, argVars, attemptVars, scanVars,
                    mono, deadline, brokeOnCancel, histVars >>
    /\ UNCHANGED notSessionVars

\* A second passes: between the loop test and the reading of remaining, or
\* while the poll GET waits.
SessionTick ==
    /\ \/ spc = "pollIssue" /\ mono < deadline
       \/ spc = "polling" /\ waited < pollTimeout
    /\ mono' = mono + 1
    /\ waited' = IF spc = "polling" THEN waited + 1 ELSE waited
    /\ UNCHANGED << spc, cancel_event, tokenVars, argVars, attemptVars,
                    scanVars, deadline, poll_count, pollTimeout,
                    pollsAfterCancel, brokeOnCancel, outVars, histVars >>
    /\ UNCHANGED notSessionVars

\* except Timeout: continue (lines 277-278)
PollTimeout ==
    /\ spc = "polling"
    /\ waited = pollTimeout
    /\ spc' = "loopHead"
    /\ UNCHANGED << cancel_event, tokenVars, argVars, attemptVars, scanVars,
                    loopVars, outVars, histVars >>
    /\ UNCHANGED notSessionVars

\* except Exception: break (lines 279-280)
PollFail ==
    /\ spc = "polling"
    /\ ReturnPasswords(passwords)
    /\ UNCHANGED << cancel_event, tokenVars, argVars, attemptVars, scanVars,
                    loopVars, histVars >>
    /\ UNCHANGED notSessionVars

\* The poll GET of the loop returned in time (lines 276, 282-285): an error
\* status breaks the loop, else the text is scanned.
PollReturn ==
    /\ spc = "polling"
    /\ waited < pollTimeout
    /\ waited > 0 \/ poll_count <= MaxPolls
    /\ \/ ReturnPasswords(passwords) /\ UNCHANGED scanVars
       \/ /\ spc' = AfterScan("loop", FALSE)
          /\ UNCHANGED << scanVars, outVars >>
       \/ \E n \in 1..MaxMessages :
            /\ spc' = "scan"
            /\ extractFor' = "loop"
            /\ messagesLeft' = n
            /\ sawPing' = FALSE
            /\ UNCHANGED outVars
    /\ UNCHANGED << cancel_event, tokenVars, argVars, attemptVars, loopVars,
                    histVars >>
    /\ UNCHANGED notSessionVars

\* try: _post("3") except Exception: pass (lines 289-292)
PostPong ==
    /\ spc = "pong"
    /\ sent' = sent \cup {"3"}
    /\ unansweredPing' = FALSE
    /\ spc' = "loopHead"
    /\ UNCHANGED << cancel_event, tokenVars, argVars, retried, sid, passwords,
                    rejectedAgain, firstPw, overwritten, scanVars, loopVars,
                    outVars, handshakeLog, refreshCalls, refreshedTo >>
    /\ UNCHANGED notSessionVars

\* The client has not reached the polling loop of line 266: it logs in or
\* enumerates the devices (new, ready), or runs the steps 1 to 6 of the
\* session.
BeforeLoop ==
    \/ spc \in { "new", "ready", "handshake", "postConnect", "pollConnect",
                 "refresh", "subscribeAccount", "pollAccount",
                 "subscribeDevices", "pollDevices", "force", "status" }
    \/ spc = "scan" /\ extractFor # "loop"

\* KumoCloudV3.cancel, called from another thread
Cancel ==
    /\ ~cancel_event
    /\ spc # "returned"
    /\ cancel_event' = TRUE
    /\ UNCHANGED << spc, tokenVars, argVars, attemptVars, scanVars, loopVars,
                    outVars, histVars >>
    /\ UNCHANGED notSessionVars

(***************************************************************************)
(* KumoCloudV3._get (lines 127-150) with KumoCloudV3.refresh (82-105).     *)
(***************************************************************************)
InitGet ==
    /\ gpc = "idle"
    /\ getStatus = "none"
    /\ getResult = "unset"
    /\ getLog = << >>
    /\ getRefreshes = 0
    /\ getRefreshed = FALSE
    /\ firstStatus = "none"
    /\ refreshFrom = << NoToken, NoToken >>

\* _get(path) is called on a client that is not harvesting.
CallGet ==
    /\ spc = "ready"
    /\ gpc = "idle"
    /\ issued < MaxIssued
    /\ gpc' = "first"
    /\ getStatus' = "none"
    /\ getResult' = "unset"
    /\ getLog' = << >>
    /\ getRefreshes' = 0
    /\ getRefreshed' = FALSE
    /\ firstStatus' = "none"
    /\ refreshFrom' = << NoToken, NoToken >>
    /\ UNCHANGED << sessionVars, notGetVars >>

\* requests.get(url, headers=self._auth_headers(), ...) raised:
\* return None (lines 131-133, 138-140)
GetRaised ==
    /\ gpc' = "done"
    /\ getResult' = "None"
    /\ UNCHANGED getStatus

\* The first GET (lines 130-133)
GetFirst ==
    /\ gpc = "first"
    /\ getLog' = Append(getLog, access_token.v)
    /\ \/ GetRaised /\ UNCHANGED firstStatus
       \/ \E st \in GetStatuses :
            /\ getStatus' = st
            /\ firstStatus' = st
            /\ gpc' = "check"
            /\ UNCHANGED getResult
    /\ UNCHANGED << getRefreshes, getRefreshed, refreshFrom >>
    /\ UNCHANGED << sessionVars, notGetVars >>

\* resp.status_code == 401, the left operand of line 135
Is401Always(st) == TRUE

Is401(st) == st = "401"

\* if resp.status_code == 401 and self.refresh(): with a reply that is not
\* 401, refresh() is not called.
GetSkipRefresh ==
    /\ gpc = "check"
    /\ ~Is401(getStatus)
    /\ gpc' = "finish"
    /\ UNCHANGED << getStatus, getResult, getLog, getRefreshes, getRefreshed,
                    firstStatus, refreshFrom >>
    /\ UNCHANGED << sessionVars, notGetVars >>

\* self.refresh() called from line 135: False without a refresh token, or
\* when the POST raised or has an error status; resp.json() may raise, out
\* of refresh and of _get; else both tokens are replaced and the value is
\* bool(self._access_token).
GetRefresh ==
    /\ gpc = "check"
    /\ Is401(getStatus)
    /\ getRefreshes' = getRefreshes + 1
    /\ refreshFrom' = << access_token, refresh_token >>
    /\ IF refresh_token = NoToken
       THEN /\ gpc' = "finish"
            /\ UNCHANGED << tokenVars, getRefreshed, getResult >>
       ELSE \/ /\ gpc' = "finish"
               /\ UNCHANGED << tokenVars, getRefreshed, getResult >>
            \/ /\ gpc' = "done"
               /\ getResult' = "raised"
               /\ UNCHANGED << tokenVars, getRefreshed >>
            \/ \E tp \in TokenPairs(issued + 1) :
                 /\ access_token' = tp[1]
                 /\ refresh_token' = tp[2]
                 /\ issued' = issued + 1
                 /\ getRefreshed' = (tp[1] # NoToken)
                 /\ gpc' = IF tp[1] # NoToken THEN "second" ELSE "finish"
                 /\ UNCHANGED getResult
    /\ UNCHANGED << getStatus, getLog, firstStatus >>
    /\ UNCHANGED << sessionButTokens, notGetVars >>

\* The GET made again after the refresh (lines 136-140)
GetSecond ==
    /\ gpc = "second"
    /\ getLog' = Append(getLog, access_token.v)
    /\ \/ GetRaised
       \/ \E st \in GetStatuses :
            /\ getStatus' = st
            /\ gpc' = "finish"
            /\ UNCHANGED getResult
    /\ UNCHANGED << getRefreshes, getRefreshed, firstStatus, refreshFrom >>
    /\ UNCHANGED << sessionVars, notGetVars >>

\* if not resp.ok: return None; try: return resp.json()
\* except Exception: return None (lines 142-150)
GetFinish ==
    /\ gpc = "finish"
    /\ gpc' = "done"
    /\ getResult' = IF getStatus = "ok_json" THEN "data" ELSE "None"
    /\ UNCHANGED << getStatus, getLog, getRefreshes, getRefreshed, firstStatus,
                    refreshFrom >>
    /\ UNCHANGED << sessionVars, notGetVars >>

\* The caller has the value; the client can be asked again.
GetReturn ==
    /\ gpc = "done"
    /\ gpc' = "idle"
    /\ UNCHANGED << getStatus, getResult, getLog, getRefreshes, getRefreshed,
                    firstStatus, refreshFrom >>
    /\ UNCHANGED << sessionVars, notGetVars >>

(***************************************************************************)
(* probe_candidate_ips (py_kumo_discovery.py, lines 28-92).                *)
(***************************************************************************)
InitProbe ==
    /\ ppc = "idle"
    /\ devices = {}
    /\ device_creds = {}
    /\ candidate_ips = << >>
    /\ ipIndex = 0
    /\ unmatched_serials = {}
    /\ toTry = {}
    /\ probeResult = EmptyMap
    /\ home = EmptyMap
    /\ honest = TRUE
    /\ probes = 0
    /\ probedBoundCred = FALSE
    /\ probedBoundAddr = FALSE
    /\ probedAfterAll = FALSE

\* probe_candidate_ips(devices, candidate_ips): the early returns, the
\* decoding of the credentials, result = {} and unmatched_serials
\* (lines 45-68).  Each credentialed device lives at its own address.
CallProbe ==
    /\ ppc = "idle"
    /\ \E ds \in SUBSET Serials, ips \in ListsUpTo(Addresses, MaxCandidates) :
       \E dc \in SUBSET ds : \E hm \in InjectiveMaps(dc) :
        /\ devices' = ds
        /\ candidate_ips' = ips
        /\ device_creds' = dc
        /\ home' = hm
        /\ unmatched_serials' = dc
        /\ ppc' = IF ds = {} \/ ips = << >> \/ dc = {} THEN "done" ELSE "outer"
    /\ ipIndex' = 1
    /\ toTry' = {}
    /\ probeResult' = EmptyMap
    /\ honest' = TRUE
    /\ probes' = 0
    /\ probedBoundCred' = FALSE
    /\ probedBoundAddr' = FALSE
    /\ probedAfterAll' = FALSE
    /\ UNCHANGED notProbeVars

\* for ip in candidate_ips: if not unmatched_serials: break;
\* for serial in list(unmatched_serials): (lines 70-74)
NextAddress ==
    /\ ppc = "outer"
    /\ IF ipIndex > Len(candidate_ips) \/ unmatched_serials = {}
       THEN /\ ppc' = "done"
            /\ UNCHANGED toTry
       ELSE /\ ppc' = "inner"
            /\ toTry' = unmatched_serials
    /\ UNCHANGED << devices, device_creds, candidate_ips, ipIndex,
                    unmatched_serials, probeResult, home, honest, probes,
                    probedBoundCred, probedBoundAddr, probedAfterAll >>
    /\ UNCHANGED notProbeVars

\* The inner loop goes to the next serial after a probe with outcome ok
\* (`break` at line 79 leaves it on a match).
InnerStopsAlways(ok) == FALSE

InnerGoesOn(ok) == ~ok

\* The values of a dict
Range(f) == { f[x] : x \in DOMAIN f }

\* One iteration of the inner loop (lines 74-79): _probe_ip(ip, creds,
\* timeout) with the credentials of a serial of the list, in the order the
\* set gives; any outcome.
Probe ==
    /\ ppc = "inner"
    /\ toTry # {}
    /\ LET ip == candidate_ips[ipIndex]
       IN \E serial \in toTry, ok \in BOOLEAN :
            /\ probes' = probes + 1
            /\ honest' = (honest /\ (ok <=> home[serial] = ip))
            /\ probedBoundCred' = (probedBoundCred \/ serial \in DOMAIN probeResult)
            /\ probedBoundAddr' = (probedBoundAddr \/ ip \in Range(probeResult))
            /\ probedAfterAll' = (probedAfterAll \/ unmatched_serials = {})
            /\ IF ok
               THEN /\ probeResult' = Put(probeResult, serial, ip)
                    /\ unmatched_serials' = unmatched_serials \ {serial}
               ELSE UNCHANGED << probeResult, unmatched_serials >>
            /\ IF InnerGoesOn(ok)
               THEN /\ toTry' = toTry \ {serial}
                    /\ UNCHANGED << ppc, ipIndex >>
               ELSE /\ toTry' = {}
                    /\ ppc' = "outer"
                    /\ ipIndex' = ipIndex + 1
    /\ UNCHANGED << devices, device_creds, candidate_ips, home >>
    /\ UNCHANGED notProbeVars

\* The list of the inner loop is exhausted: the next ip.
AddressDone ==
    /\ ppc = "inner"
    /\ toTry = {}
    /\ ppc' = "outer"
    /\ ipIndex' = ipIndex + 1
    /\ UNCHANGED << devices, device_creds, candidate_ips, unmatched_serials,
                    toTry, probeResult, home, honest, probes, probedBoundCred,
                    probedBoundAddr, probedAfterAll >>
    /\ UNCHANGED notProbeVars

\* return result (line 92); the function can be called again.
ProbeReturn ==
    /\ ppc = "done"
    /\ ppc' = "idle"
    /\ UNCHANGED << devices, device_creds, candidate_ips, ipIndex,
                    unmatched_serials, toTry, probeResult, home, honest,
                    probes, probedBoundCred, probedBoundAddr, probedAfterAll >>
    /\ UNCHANGED notProbeVars

(***************************************************************************)
(* KumoCloudAccount (py_kumo_cloud_account.py).                            *)
(***************************************************************************)
\* KumoCloudAccount.__init__ without a cached dictionary
InitAccount ==
    /\ apc = "idle"
    /\ need_fetch = TRUE
    /\ have_dict = FALSE
    /\ units = EmptyMap
    /\ raw = EmptyMap
    /\ acctRet = "none"
    /\ lastOp = "none"
    /\ loginFailed = FALSE
    /\ unitsBefore = EmptyMap
    /\ rawBefore = EmptyMap
    /\ probedFor = {}
    /\ v3Runs = 0

\* if not unit.get(field) and v3_dev.get(field): unit[field] = v3_dev[field]
\* (lines 147-150), the same test as _merge_v3_fields makes (lines 174-176)
FillField(old, new) == IF old = "" /\ new # "" THEN new ELSE old

\* _merge_v3_fields(raw_unit, v3_dev) and the body of the loop of
\* _supplement_with_v3 for one unit (lines 144-150, 169-176)
MergeV3Fields(unit, v3_dev) ==
    [f \in UnitFields |->
        IF f \in CredFields THEN FillField(unit[f], v3_dev[f]) ELSE unit[f]]

\* The units after the loop of lines 143-150, or the raw entries after
\* _update_raw_dict_credentials (lines 157-167).
MergeAll(us, v3) ==
    [s \in DOMAIN us |->
        IF s \in DOMAIN v3 THEN MergeV3Fields(us[s], v3[s]) ELSE us[s]]

\* missing of line 123
MissingCredentials(us) ==
    { s \in DOMAIN us : us[s]["password"] = "" \/ us[s]["cryptoSerial"] = "" }

\* What a method returns after _fetch_if_needed (lines 178-182, 287-393):
\* try_setup whether there are units, get_all_units their serials, the
\* others a field of the unit they are asked about, None if there is none.
Returned(op, us, s) ==
    CASE op = "try_setup" -> IF us = EmptyMap THEN "False" ELSE "True"
      [] op = "get_all_units" -> IF us = EmptyMap THEN "empty" ELSE "serials"
      [] op = "get_address" ->
            IF s \in DOMAIN us /\ us[s]["address"] # "" THEN "value" ELSE "None"
      [] OTHER -> IF s \in DOMAIN us THEN "value" ELSE "None"

\* except Timeout (line 82): the exceptions of requests.post that the fetch
\* catches.
LoginCaught == { "timeout" }

\* _fetch_if_needed (lines 66-115), called first by every method of
\* Accessors.  The first call posts the login: a caught exception or an
\* error status leaves self._kumo_dict None, and the call returns at line
\* 95 with _need_fetch False; any other exception leaves through the
\* method that called.  Past the fetch, every call rebuilds self._units
\* from self._kumo_dict with _parse_unit (subscripting None raises
\* TypeError, which `except KeyError` does not catch) and then runs
\* _supplement_with_v3 (lines 117-155): nothing when no credential is
\* missing, when the V3 retrieval raised or when it returned no device (v3
\* empty); else the loop over the units, and the raw dictionary when a
\* field was updated.
FetchIfNeeded ==
    /\ apc = "idle"
    /\ \E o \in (IF need_fetch THEN LoginOutcomes ELSE { "none" }) :
        /\ loginFailed' = (loginFailed \/ o \in { "timeout", "refused", "error" })
        /\ IF o \in { "timeout", "refused" } /\ o \notin LoginCaught
           THEN /\ acctRet' = "raised"
                /\ apc' = "returned"
                /\ lastOp' = "fetch"
                /\ unitsBefore' = units /\ rawBefore' = raw
                /\ UNCHANGED << need_fetch, have_dict, units, raw, v3Runs >>
           ELSE IF o \in { "timeout", "error" } /\ ~have_dict
           THEN /\ need_fetch' = FALSE
                /\ acctRet' = "pending"
                /\ apc' = "fetched"
                /\ lastOp' = "fetch"
                /\ unitsBefore' = units /\ rawBefore' = raw
                /\ UNCHANGED << have_dict, units, raw, v3Runs >>
           ELSE IF o = "none" /\ ~have_dict
           THEN /\ units' = EmptyMap
                /\ acctRet' = "raised"
                /\ apc' = "returned"
                /\ lastOp' = "fetch"
                /\ unitsBefore' = units /\ rawBefore' = raw
                /\ UNCHANGED << need_fetch, have_dict, raw, v3Runs >>
           ELSE \E r \in (IF o = "ok" THEN RawChoices ELSE { raw }) :
                \E v3 \in (IF MissingCredentials(r) = {} THEN { EmptyMap }
                                                          ELSE V3Devices) :
                  LET merged == MergeAll(r, v3)
                  IN  /\ MissingCredentials(r) # {} => v3Runs < MaxV3Runs
                      /\ v3Runs' = v3Runs + (IF MissingCredentials(r) # {}
                                             THEN 1 ELSE 0)
                      /\ unitsBefore' = r
                      /\ rawBefore' = r
                      /\ need_fetch' = FALSE
                      /\ have_dict' = TRUE
                      /\ acctRet' = "pending"
                      /\ apc' = "fetched"
                      /\ lastOp' = "supplement"
                      /\ IF MissingCredentials(r) = {} \/ v3 = EmptyMap
                         THEN units' = r /\ raw' = r
                         ELSE /\ units' = merged
                              /\ raw' = IF merged # r THEN merged ELSE r
    /\ UNCHANGED probedFor
    /\ UNCHANGED notAccountVars

\* The rest of the method that called _fetch_if_needed: try_setup (lines
\* 178-182), get_all_units (287-292), get_name (308-319), get_address
\* (354-365) or get_credentials (380-393), asked about unit s.
AccessorReturn ==
    /\ apc = "fetched"
    /\ \E op \in Accessors, s \in Serials : acctRet' = Returned(op, units, s)
    /\ apc' = "returned"
    /\ UNCHANGED << need_fetch, have_dict, units, raw, lastOp, loginFailed,
                    unitsBefore, rawBefore, probedFor, v3Runs >>
    /\ UNCHANGED notAccountVars

\* _extract_cached_addresses (lines 258-280)
CachedAddresses(r) ==
    [s \in { t \in DOMAIN r : r[t]["address"] # "" } |-> r[s]["address"]]

\* The zone_table of try_setup_v3_only (lines 214-226): one entry per V3
\* device, with the cached address if there is one.
ZoneTable(v3, cached) ==
    [s \in DOMAIN v3 |->
        [f \in UnitFields |->
            IF f \in CredFields THEN v3[s][f]
            ELSE IF s \in DOMAIN cached THEN cached[s] ELSE ""]]

\* A zone_table whose every entry counts as missing its address.
EveryEntry(zt) == DOMAIN zt

\* missing of line 229: the entries of zone_table without address
MissingAddress(zt) == { s \in DOMAIN zt : zt[s]["address"] = "" }

\* The entries probe_candidate_ips can match: those of `missing` whose
\* credentials are both there (lines 229-235 and discovery lines 50-55).
Probeable(zt) ==
    { s \in MissingAddress(zt) : /\ zt[s]["password"] # ""
                                 /\ zt[s]["cryptoSerial"] # "" }

\* try_setup_v3_only(candidate_ips) (lines 184-257): nothing changes when
\* the V3 retrieval raised or returned no device; else the dictionary and
\* the units are rebuilt from zone_table.  probe_candidate_ips is called
\* with `missing` when it is not empty and candidate_ips were given (line
\* 230), and what it matched is written into zone_table (lines 235-237).
TrySetupV3Only ==
    /\ apc = "idle"
    /\ \E v3 \in V3Devices :
        LET zt == ZoneTable(v3, CachedAddresses(raw))
        IN  /\ unitsBefore' = units
            /\ rawBefore' = raw
            /\ acctRet' = (IF v3 = EmptyMap THEN "False" ELSE "True")
            /\ IF v3 = EmptyMap
               THEN /\ probedFor' = {}
                    /\ UNCHANGED << units, raw, need_fetch, have_dict >>
               ELSE \E given \in BOOLEAN :
                    \E matched \in (IF given THEN Matches(Probeable(zt))
                                              ELSE { EmptyMap }) :
                      LET zt2 == [s \in DOMAIN zt |->
                                    IF s \in DOMAIN matched
                                    THEN [zt[s] EXCEPT !["address"] = matched[s]]
                                    ELSE zt[s]]
                      IN  /\ probedFor' = (IF given THEN MissingAddress(zt)
                                                    ELSE {})
                          /\ raw' = zt2
                          /\ units' = zt2
                          /\ need_fetch' = FALSE
                          /\ have_dict' = TRUE
    /\ lastOp' = "v3only"
    /\ apc' = "returned"
    /\ UNCHANGED << loginFailed, v3Runs >>
    /\ UNCHANGED notAccountVars

\* The caller has the result, or the exception, of the method and goes on
\* to its next call on the account; what is recorded of a call is that of
\* the call under way.
NextCall ==
    /\ apc = "returned"
    /\ apc' = "idle"
    /\ acctRet' = "none"
    /\ lastOp' = "none"
    /\ unitsBefore' = EmptyMap
    /\ rawBefore' = EmptyMap
    /\ probedFor' = {}
    /\ UNCHANGED << need_fetch, have_dict, units, raw, loginFailed, v3Runs >>
    /\ UNCHANGED notAccountVars
(***************************************************************************)
(* Calls of merge.                                                         *)
(***************************************************************************)
InitMerge ==
    /\ mpc = "idle"
    /\ merge_d = << "map", EmptyMap >>
    /\ merge_v = << "map", EmptyMap >>
    /\ mergedOnce = << "map", EmptyMap >>

\* merge(d, v) on two mappings
MergeCall ==
    /\ mpc = "idle"
    /\ \E d \in MergeInputs, v \in MergeInputs :
        /\ merge_v' = v
        /\ merge_d' = MergeMappings(d, v)
        /\ mergedOnce' = MergeMappings(d, v)
    /\ mpc' = "once"
    /\ UNCHANGED notMergeVars

\* merge(d, v) again, of the same v into what the first call returned
MergeAgain ==
    /\ mpc = "once"
    /\ merge_d' = MergeMappings(merge_d, merge_v)
    /\ mpc' = "twice"
    /\ UNCHANGED << merge_v, mergedOnce >>
    /\ UNCHANGED notMergeVars

\* The caller drops the mappings.
MergeDone ==
    /\ mpc = "twice"
    /\ mpc' = "idle"
    /\ merge_d' = << "map", EmptyMap >>
    /\ merge_v' = << "map", EmptyMap >>
    /\ mergedOnce' = << "map", EmptyMap >>
    /\ UNCHANGED notMergeVars


(***************************************************************************)
(* PyKumoBase._request and the token computations.                         *)
(***************************************************************************)
InitRequest ==
    /\ qpc = "idle"
    /\ q_address = FALSE
    /\ q_password = << >>
    /\ q_serial = << >>
    /\ post_data = << >>
    /\ token = NotComputed
    /\ ctoken = NotComputed
    /\ q_outcome = "none"
    /\ q_ret = "none"

\* _request(post_data) of a unit (lines 65-70): without address it returns
\* {} at once.
CallRequest ==
    /\ qpc = "idle"
    /\ \E a \in BOOLEAN, pw \in Payloads, cs \in CryptoSerials, pd \in Payloads :
        /\ q_address' = a
        /\ q_password' = pw
        /\ q_serial' = cs
        /\ post_data' = pd
        /\ IF a THEN qpc' = "token" /\ q_ret' = "none"
                ELSE qpc' = "done" /\ q_ret' = "empty"
    /\ UNCHANGED << token, ctoken, q_outcome >>
    /\ UNCHANGED notRequestVars

\* token = self._token(post_data) (line 72), outside the try: an exception
\* of _token leaves _request.
RequestToken ==
    /\ qpc = "token"
    /\ token' = Token(q_password, q_serial, post_data)
    /\ IF token'.exc # "none"
       THEN qpc' = "done" /\ q_ret' = "raised"
       ELSE qpc' = "put" /\ q_ret' = "none"
    /\ UNCHANGED << q_address, q_password, q_serial, post_data, ctoken, q_outcome >>
    /\ UNCHANGED notRequestVars

\* The try of lines 76-89: the PUT and response.json(); {} after a caught
\* exception.
RequestPut ==
    /\ qpc = "put"
    /\ \E o \in PutOutcomes :
        /\ q_outcome' = o
        /\ q_ret' = IF o = "json" THEN "json"
                    ELSE IF RequestCatches(o) THEN "empty" ELSE "raised"
    /\ qpc' = "done"
    /\ UNCHANGED << q_address, q_password, q_serial, post_data, token, ctoken >>
    /\ UNCHANGED notRequestVars

\* _compute_token(password, crypto_serial, post_data), as _probe_ip calls it
\* (py_kumo_discovery.py, line 122).
CallComputeToken ==
    /\ qpc = "idle"
    /\ \E pw \in Payloads, cs \in CryptoSerials, pd \in Payloads :
        /\ q_password' = pw
        /\ q_serial' = cs
        /\ post_data' = pd
        /\ ctoken' = ComputeToken(pw, cs, pd)
    /\ qpc' = "done"
    /\ UNCHANGED << q_address, token, q_outcome, q_ret >>
    /\ UNCHANGED notRequestVars

\* The caller has the result.
RequestReturn ==
    /\ qpc = "done"
    /\ qpc' = "idle"
    /\ q_address' = FALSE
    /\ q_password' = << >>
    /\ q_serial' = << >>
    /\ post_data' = << >>
    /\ token' = NotComputed
    /\ ctoken' = NotComputed
    /\ q_outcome' = "none"
    /\ q_ret' = "none"
    /\ UNCHANGED notRequestVars

(***************************************************************************)
(* update_status.                                                          *)
(***************************************************************************)
InitStatus ==
    /\ upc = "unbuilt"
    /\ u_class = "PyKumo"
    /\ u_status = "none"
    /\ u_expired = TRUE
    /\ u_s = 0
    /\ u_sensors = 0
    /\ u_profile = "none"
    /\ u_ret = "none"
    /\ statusAtCall = "none"
    /\ u_failedAt = "none"

\* PyKumoBase.__init__ (py_kumo_base.py, lines 41-44): empty status,
\* profile and sensors, and a last update two cache intervals ago.
MakeUnit ==
    /\ upc = "unbuilt"
    /\ \E c \in UnitClasses : u_class' = c
    /\ upc' = "idle"
    /\ UNCHANGED << u_status, u_expired, u_s, u_sensors, u_profile, u_ret,
                    statusAtCall, u_failedAt >>
    /\ UNCHANGED notStatusVars

\* CACHE_INTERVAL_SECONDS pass.
CacheExpires ==
    /\ upc = "idle"
    /\ ~u_expired
    /\ u_expired' = TRUE
    /\ UNCHANGED << upc, u_class, u_status, u_s, u_sensors, u_profile, u_ret,
                    statusAtCall, u_failedAt >>
    /\ UNCHANGED notStatusVars

\* update_status() (py_kumo.py, lines 301-307; py_kumo_station.py, lines
\* 28-34): nothing is queried while the cache is young and self._status
\* has 'mode'.
CallUpdateStatus ==
    /\ upc = "idle"
    /\ statusAtCall' = u_status
    /\ u_failedAt' = "none"
    /\ IF u_expired \/ u_status # "full"
       THEN upc' = "status" /\ u_ret' = "none"
       ELSE upc' = "done" /\ u_ret' = "True"
    /\ UNCHANGED << u_class, u_status, u_expired, u_s, u_sensors, u_profile >>
    /\ UNCHANGED notStatusVars

\* A block of update_status ended by what subscripting the response gave:
\* return False after a caught exception, the exception otherwise.
EndedBy(block, exc, caught) ==
    /\ upc' = "done"
    /\ u_failedAt' = block
    /\ u_ret' = IF exc \in caught THEN "False" ELSE "raised"

\* The status block (py_kumo.py, lines 308-321; py_kumo_station.py, lines
\* 35-43).  The status of a station holds 'outdoorTemp', never 'mode'.
StatusQuery ==
    /\ upc = "status"
    /\ \E shape \in ReplyShapes :
        IF Subscript(shape) = "value"
        THEN /\ u_status' = IF u_class = "PyKumoStation" THEN "bare" ELSE shape
             /\ u_expired' = FALSE
             /\ upc' = "sensors"
             /\ u_s' = 0
             /\ u_sensors' = 0
             /\ UNCHANGED << u_ret, u_failedAt >>
        ELSE /\ EndedBy("status", Subscript(shape), CatchesKeyError)
             /\ UNCHANGED << u_status, u_expired, u_s, u_sensors >>
    /\ UNCHANGED << u_class, u_profile, statusAtCall >>
    /\ UNCHANGED notStatusVars

\* One turn of the loop over range(POSSIBLE_SENSORS) (py_kumo.py, lines
\* 323-341): a sensor with uuid is appended, one without ends the loop.
SensorQuery ==
    /\ upc = "sensors"
    /\ u_class = "PyKumo"
    /\ u_s < POSSIBLE_SENSORS
    /\ \E shape \in ReplyShapes :
        IF Subscript(shape) = "value"
        THEN /\ IF shape = "full"
                THEN /\ u_sensors' = u_sensors + 1
                     /\ u_s' = u_s + 1
                     /\ upc' = IF u_s + 1 = POSSIBLE_SENSORS
                               THEN "profile" ELSE "sensors"
                ELSE /\ upc' = "profile"
                     /\ UNCHANGED << u_s, u_sensors >>
             /\ UNCHANGED << u_ret, u_failedAt >>
        ELSE /\ EndedBy("sensors", Subscript(shape), CatchesKeyError)
             /\ UNCHANGED << u_s, u_sensors >>
    /\ UNCHANGED << u_class, u_status, u_expired, u_profile, statusAtCall >>
    /\ UNCHANGED notStatusVars

\* The sensors block of a station (py_kumo_station.py, lines 45-55): one
\* query, the sensors that have a uuid are kept.
StationSensors ==
    /\ upc = "sensors"
    /\ u_class = "PyKumoStation"
    /\ \E shape \in ReplyShapes :
        IF Subscript(shape) = "value"
        THEN /\ u_sensors' = IF shape = "full" THEN 1 ELSE 0
             /\ upc' = "adapter"
             /\ UNCHANGED << u_ret, u_failedAt >>
        ELSE /\ EndedBy("sensors", Subscript(shape), CatchesKeyError)
             /\ UNCHANGED u_sensors
    /\ UNCHANGED << u_class, u_status, u_expired, u_s, u_profile, statusAtCall >>
    /\ UNCHANGED notStatusVars

\* The profile block (py_kumo.py, lines 343-355)
ProfileQuery ==
    /\ upc = "profile"
    /\ \E shape \in ReplyShapes :
        IF Subscript(shape) = "value"
        THEN /\ u_profile' = shape
             /\ upc' = "adapter"
             /\ UNCHANGED << u_ret, u_failedAt >>
        ELSE /\ EndedBy("profile", Subscript(shape), CatchesKeyError)
             /\ UNCHANGED u_profile
    /\ UNCHANGED << u_class, u_status, u_expired, u_s, u_sensors, statusAtCall >>
    /\ UNCHANGED notStatusVars

\* The adapter block (py_kumo.py, lines 357-384; py_kumo_station.py, lines
\* 57-70): the profile is edited; a unit goes on to the MHK2 block, a
\* station returns True.
AdapterQuery ==
    /\ upc = "adapter"
    /\ \E shape \in ReplyShapes :
        IF Subscript(shape) = "value"
        THEN /\ u_profile' = "full"
             /\ IF u_class = "PyKumo"
                THEN upc' = "mhk2" /\ u_ret' = u_ret
                ELSE upc' = "done" /\ u_ret' = "True"
             /\ UNCHANGED u_failedAt
        ELSE /\ EndedBy("adapter", Subscript(shape), CatchesKeyError)
             /\ UNCHANGED u_profile
    /\ UNCHANGED << u_class, u_status, u_expired, u_s, u_sensors, statusAtCall >>
    /\ UNCHANGED notStatusVars

\* The MHK2 block (py_kumo.py, lines 386-409): a sensor entry when the
\* MHK2 reports a humidity; its exceptions are logged, and True returned.
Mhk2Query ==
    /\ upc = "mhk2"
    /\ \E shape \in ReplyShapes :
        /\ u_sensors' = IF shape = "full" THEN u_sensors + 1 ELSE u_sensors
        /\ IF Subscript(shape) = "value" \/ Subscript(shape) \in CatchesMhk2
           THEN u_ret' = "True" /\ u_failedAt' = u_failedAt
           ELSE u_ret' = "raised" /\ u_failedAt' = "mhk2"
    /\ upc' = "done"
    /\ UNCHANGED << u_class, u_status, u_expired, u_s, u_profile, statusAtCall >>
    /\ UNCHANGED notStatusVars

\* The caller has the result.
UpdateStatusReturn ==
    /\ upc = "done"
    /\ upc' = "idle"
    /\ u_ret' = "none"
    /\ u_failedAt' = "none"
    /\ UNCHANGED << u_class, u_status, u_expired, u_s, u_sensors, u_profile,
                    statusAtCall >>
    /\ UNCHANGED notStatusVars

(***************************************************************************)
(* Schedule fetch and push.                                                *)
(***************************************************************************)
InitSchedule ==
    /\ hpc = "unbuilt"
    /\ h_module = "schedule.py"
    /\ events_by_slot = 0
    /\ active_slots = {}
    /\ batch_size = 1
    /\ start_index = 0
    /\ h_op = "none"
    /\ h_ret = "none"
    /\ lacking = FALSE
    /\ batchFailed = FALSE
    /\ sentAfterFailed = FALSE

\* UnitSchedule(pykumo), of either module
MakeSchedule ==
    /\ hpc = "unbuilt"
    /\ \E m \in ScheduleModules : h_module' = m
    /\ hpc' = "idle"
    /\ UNCHANGED << events_by_slot, active_slots, batch_size, start_index, h_op, h_ret,
                    lacking, batchFailed, sentAfterFailed >>
    /\ UNCHANGED notScheduleVars

\* fetch() up to the request (schedule.py, lines 203-213; py_kumo.py,
\* lines 168-177): self.events_by_slot.clear()
CallFetch ==
    /\ hpc = "idle"
    /\ hpc' = "fetching"
    /\ h_op' = "fetch"
    /\ h_ret' = "none"
    /\ events_by_slot' = 0
    /\ active_slots' = {}
    /\ lacking' = FALSE
    /\ UNCHANGED << h_module, batch_size, start_index, batchFailed,
                    sentAfterFailed >>
    /\ UNCHANGED notScheduleVars

\* The rest of fetch (schedule.py, lines 214-222; py_kumo.py, lines
\* 178-186): the events of the response; after KeyError schedule.py raises
\* ValueError and py_kumo.py returns; TypeError is not caught.
FetchReply ==
    /\ hpc = "fetching"
    /\ \E shape \in ReplyShapes, n \in 0..MaxSlots :
        /\ lacking' = (Subscript(shape) # "value")
        /\ IF Subscript(shape) = "value"
           THEN \E a \in SUBSET (1..n) : active_slots' = a
           ELSE active_slots' = {}
        /\ CASE Subscript(shape) = "value" ->
                  events_by_slot' = n /\ h_ret' = "returned"
             [] Subscript(shape) = "KeyError" ->
                  /\ events_by_slot' = 0
                  /\ h_ret' = IF FetchHandler(h_module) = "raise"
                              THEN "raised" ELSE "returned"
             [] OTHER -> events_by_slot' = 0 /\ h_ret' = "raised"
    /\ hpc' = "done"
    /\ UNCHANGED << h_module, batch_size, start_index, h_op, batchFailed,
                    sentAfterFailed >>
    /\ UNCHANGED notScheduleVars

\* push(batch_size) up to the loop (schedule.py, lines 224-229;
\* py_kumo.py, lines 188-193)
CallPush ==
    /\ hpc = "idle"
    /\ \E b \in 1..MaxSlots : batch_size' = b
    /\ start_index' = 0
    /\ hpc' = "pushing"
    /\ h_op' = "push"
    /\ h_ret' = "none"
    /\ batchFailed' = FALSE
    /\ sentAfterFailed' = FALSE
    /\ UNCHANGED << h_module, events_by_slot, active_slots, lacking >>
    /\ UNCHANGED notScheduleVars

\* One turn of the loop of push (schedule.py, lines 229-237; py_kumo.py,
\* lines 193-201): the request of the batch, and the exception if the
\* response holds '_api_error'.
PushBatch ==
    /\ hpc = "pushing"
    /\ start_index < events_by_slot
    /\ \E reply \in PushReplies :
        /\ batchFailed' = (batchFailed \/ reply # "accepted")
        /\ IF HasApiError(reply)
           THEN hpc' = "done" /\ h_ret' = "raised"
           ELSE hpc' = "pushing" /\ h_ret' = "none"
    /\ sentAfterFailed' = (sentAfterFailed \/ batchFailed)
    /\ start_index' = start_index + batch_size
    /\ UNCHANGED << h_module, events_by_slot, active_slots, batch_size, h_op, lacking >>
    /\ UNCHANGED notScheduleVars

\* The loop of push is over: push returns None.
PushEnd ==
    /\ hpc = "pushing"
    /\ start_index >= events_by_slot
    /\ hpc' = "done"
    /\ h_ret' = "returned"
    /\ UNCHANGED << h_module, events_by_slot, active_slots, batch_size, start_index, h_op,
                    lacking, batchFailed, sentAfterFailed >>
    /\ UNCHANGED notScheduleVars

\* clear() of a UnitSchedule of schedule.py, which inherits it from
\* MutableMapping (line 110): try: while True: self.popitem()
\* except KeyError: pass.
CallClear ==
    /\ hpc = "idle"
    /\ h_module = "schedule.py"
    /\ hpc' = "clearing"
    /\ h_op' = "clear"
    /\ h_ret' = "none"
    /\ UNCHANGED << h_module, events_by_slot, active_slots, batch_size,
                    start_index, lacking, batchFailed, sentAfterFailed >>
    /\ UNCHANGED notScheduleVars

\* next(iter(self)) of popitem: __iter__ yields the sorted slot names
\* (lines 180-183), of which the first is taken.
FirstSlot == 1

\* __delitem__(slot) (lines 163-174): the event of the slot is
\* deactivated, the slot stays.
DelItem(slots, slot) == slots \ { slot }

\* One popitem() of the loop of clear on a schedule that has slots:
\* key = next(iter(self)); value = self[key]; del self[key].
ClearPopitem ==
    /\ hpc = "clearing"
    /\ events_by_slot > 0
    /\ active_slots' = DelItem(active_slots, FirstSlot)
    /\ UNCHANGED << hpc, h_module, events_by_slot, batch_size, start_index,
                    h_op, h_ret, lacking, batchFailed, sentAfterFailed >>
    /\ UNCHANGED notScheduleVars

\* popitem() on a schedule without slots: next(iter(self)) raises
\* StopIteration, popitem raises KeyError, and clear returns.
ClearEnd ==
    /\ hpc = "clearing"
    /\ events_by_slot = 0
    /\ hpc' = "done"
    /\ h_ret' = "returned"
    /\ UNCHANGED << h_module, events_by_slot, active_slots, batch_size,
                    start_index, h_op, lacking, batchFailed, sentAfterFailed >>
    /\ UNCHANGED notScheduleVars

\* The caller has the result.
ScheduleReturn ==
    /\ hpc = "done"
    /\ hpc' = "idle"
    /\ h_op' = "none"
    /\ h_ret' = "none"
    /\ lacking' = FALSE
    /\ batchFailed' = FALSE
    /\ sentAfterFailed' = FALSE
    /\ UNCHANGED << h_module, events_by_slot, active_slots, batch_size, start_index >>
    /\ UNCHANGED notScheduleVars

(***************************************************************************)
(* _get and refresh of a shared client.                                    *)
(***************************************************************************)
\* After login(): the client holds the tokens of generation 1.
InitWorkers ==
    /\ wpc = [w \in Workers |-> "idle"]
    /\ shared_access = 1
    /\ shared_refresh = 1
    /\ served = 1
    /\ submitted = [w \in Workers |-> 0]
    /\ w_ret = [w \in Workers |-> "none"]
    /\ spentSubmitted = FALSE

\* The first GET of _get (lines 127-134): an exception or an error status
\* other than 401 gives None, 401 leads to refresh(), 200 gives the data.
WorkerGet ==
    /\ \E w \in Workers :
        /\ wpc[w] = "idle"
        /\ served < MaxIssued
        /\ \E status \in GetStatuses :
            /\ wpc' = [wpc EXCEPT ![w] = IF status = "401" THEN "rejected" ELSE "done"]
            /\ w_ret' = [w_ret EXCEPT ![w] =
                            IF status = "401" THEN "none"
                            ELSE IF status = "ok_json" THEN "data" ELSE "None"]
        /\ UNCHANGED << shared_access, shared_refresh, served, submitted,
                        spentSubmitted >>
    /\ UNCHANGED notWorkerVars

\* refresh() up to its POST (lines 82-94): the request carries
\* self._refresh_token as the worker reads it now.  No lock is taken.
WorkerRefreshPost ==
    /\ \E w \in Workers :
        /\ wpc[w] = "rejected"
        /\ wpc' = [wpc EXCEPT ![w] = "refreshing"]
        /\ submitted' = [submitted EXCEPT ![w] = shared_refresh]
        /\ UNCHANGED << shared_access, shared_refresh, served, w_ret, spentSubmitted >>
    /\ UNCHANGED notWorkerVars

\* The rest of refresh() (lines 95-105) and what _get does with its result
\* (line 136): the server exchanges the refresh token of its last
\* generation for the next generation and rejects any other; the POST may
\* also fail.  After False _get goes on with the 401 and returns None.
WorkerRefreshReply ==
    /\ \E w \in Workers :
        /\ wpc[w] = "refreshing"
        /\ \E arrives \in BOOLEAN :
            IF arrives /\ submitted[w] = served
            THEN /\ served' = served + 1
                 /\ shared_access' = served + 1
                 /\ shared_refresh' = served + 1
                 /\ wpc' = [wpc EXCEPT ![w] = "retry"]
                 /\ UNCHANGED << w_ret, spentSubmitted >>
            ELSE /\ spentSubmitted' = (spentSubmitted \/ (arrives /\ submitted[w] < served))
                 /\ wpc' = [wpc EXCEPT ![w] = "done"]
                 /\ w_ret' = [w_ret EXCEPT ![w] = "None"]
                 /\ UNCHANGED << served, shared_access, shared_refresh >>
        /\ UNCHANGED submitted
    /\ UNCHANGED notWorkerVars

\* The second GET of _get and its end (lines 137-150)
WorkerRetry ==
    /\ \E w \in Workers :
        /\ wpc[w] = "retry"
        /\ \E status \in GetStatuses :
            w_ret' = [w_ret EXCEPT ![w] = IF status = "ok_json" THEN "data" ELSE "None"]
        /\ wpc' = [wpc EXCEPT ![w] = "done"]
        /\ UNCHANGED << shared_access, shared_refresh, served, submitted,
                        spentSubmitted >>
    /\ UNCHANGED notWorkerVars

\* The caller of _get has the result.
WorkerReturn ==
    /\ \E w \in Workers :
        /\ wpc[w] = "done"
        /\ wpc' = [wpc EXCEPT ![w] = "idle"]
        /\ w_ret' = [w_ret EXCEPT ![w] = "none"]
        /\ submitted' = [submitted EXCEPT ![w] = 0]
        /\ UNCHANGED << shared_access, shared_refresh, served, spentSubmitted >>
    /\ UNCHANGED notWorkerVars

(***************************************************************************)
(* make_pykumos.                                                           *)
(***************************************************************************)
InitNames ==
    /\ npc = "idle"
    /\ unit_labels = << >>
    /\ unit_index = 0
    /\ kumos = EmptyMap

\* make_pykumos() (lines 395-399) of an account whose units carry these
\* labels
CallMakePykumos ==
    /\ npc = "idle"
    /\ \E ls \in LabelLists(MaxUnits) : unit_labels' = ls
    /\ unit_index' = 0
    /\ kumos' = EmptyMap
    /\ npc' = "loop"
    /\ UNCHANGED notNameVars

\* One turn of the loop over the serials (lines 400-422): a name that is
\* taken is renumbered, then kumos[name] is assigned.
NameUnit ==
    /\ npc = "loop"
    /\ unit_index < Len(unit_labels)
    /\ LET unit == unit_index + 1
           label == unit_labels[unit]
           taken == label \in DOMAIN kumos
           name == IF ~taken THEN label
                   ELSE IF MatchesNumbered(label) THEN NextNumbered(label)
                   ELSE WithNumber(label, 2)
           moved == IF taken /\ ~MatchesNumbered(label)
                    THEN Put(Popped(kumos, label), WithNumber(label, 1),
                             kumos[label])
                    ELSE kumos
       IN  /\ kumos' = Put(moved, name, unit)
           /\ unit_index' = unit
    /\ UNCHANGED << npc, unit_labels >>
    /\ UNCHANGED notNameVars

\* The loop is over (lines 424-428): update_status of every entry, which
\* leaves kumos as it is, and return kumos.
ReturnKumos ==
    /\ npc = "loop"
    /\ unit_index = Len(unit_labels)
    /\ npc' = "done"
    /\ UNCHANGED << unit_labels, unit_index, kumos >>
    /\ UNCHANGED notNameVars

\* The caller has the result.
MakePykumosDone ==
    /\ npc = "done"
    /\ npc' = "idle"
    /\ unit_labels' = << >>
    /\ unit_index' = 0
    /\ kumos' = EmptyMap
    /\ UNCHANGED notNameVars
(***************************************************************************)
(* The specifications.                                                     *)
(***************************************************************************)
Init ==
    /\ InitRetrieve
    /\ InitSession
    /\ InitGet
    /\ InitProbe
    /\ InitAccount
    /\ InitMerge
    /\ InitRequest
    /\ InitStatus
    /\ InitSchedule
    /\ InitWorkers
    /\ InitNames

NextRetrieve ==
    \/ CallRetrieve
    \/ TopQuery
    \/ SubQuery
    \/ SubSkip
    \/ Finish
    \/ ReturnToCaller
    \/ Tick
    \/ ClockBack

SpecRetrieve == Init /\ [][NextRetrieve]_vars

\* Every request of a pass returns within its timeouts and every sleep
\* ends: a step of the running call that can be taken is taken.
SpecRetrieveLive ==
    /\ SpecRetrieve
    /\ WF_vars(TopQuery)
    /\ WF_vars(SubQuery)
    /\ WF_vars(SubSkip)
    /\ WF_vars(Finish)

NextSession ==
    \/ Login
    \/ CallGetPasswords
    \/ Handshake
    \/ PostConnect
    \/ PollConnect
    \/ RefreshAfterReject
    \/ PostSubscribeAccount
    \/ SkipSubscribeAccount
    \/ PollAccount
    \/ PostSubscribeDevices
    \/ PollDevices
    \/ ScanMessage
    \/ PostForce
    \/ PostStatus
    \/ LoopHead
    \/ PollIssue
    \/ SessionTick
    \/ PollTimeout
    \/ PollFail
    \/ PollReturn
    \/ PostPong
    \/ Cancel

SpecSession == Init /\ [][NextSession]_vars

\* Every network call returns or times out, the client's thread keeps
\* running and seconds keep passing: each step that can be taken is taken.
SpecSessionLive == SpecSession /\ WF_vars(NextSession)

NextGet ==
    \/ Login
    \/ CallGet
    \/ GetFirst
    \/ GetSkipRefresh
    \/ GetRefresh
    \/ GetSecond
    \/ GetFinish
    \/ GetReturn

SpecGet == Init /\ [][NextGet]_vars

NextProbe ==
    \/ CallProbe
    \/ NextAddress
    \/ Probe
    \/ AddressDone
    \/ ProbeReturn

SpecProbe == Init /\ [][NextProbe]_vars

NextAccount ==
    \/ FetchIfNeeded
    \/ AccessorReturn
    \/ TrySetupV3Only
    \/ NextCall

SpecAccount == Init /\ [][NextAccount]_vars


NextMerge ==
    \/ MergeCall
    \/ MergeAgain
    \/ MergeDone

SpecMerge == Init /\ [][NextMerge]_vars

NextRequest ==
    \/ CallRequest
    \/ RequestToken
    \/ RequestPut
    \/ CallComputeToken
    \/ RequestReturn

SpecRequest == Init /\ [][NextRequest]_vars

NextStatus ==
    \/ MakeUnit
    \/ CacheExpires
    \/ CallUpdateStatus
    \/ StatusQuery
    \/ SensorQuery
    \/ StationSensors
    \/ ProfileQuery
    \/ AdapterQuery
    \/ Mhk2Query
    \/ UpdateStatusReturn

SpecStatus == Init /\ [][NextStatus]_vars

NextSchedule ==
    \/ MakeSchedule
    \/ CallFetch
    \/ FetchReply
    \/ CallPush
    \/ PushBatch
    \/ PushEnd
    \/ CallClear
    \/ ClearPopitem
    \/ ClearEnd
    \/ ScheduleReturn

SpecSchedule == Init /\ [][NextSchedule]_vars

\* The thread that called clear() keeps running: a popitem that can be
\* made is made.
SpecScheduleLive ==
    /\ SpecSchedule
    /\ WF_vars(ClearPopitem)
    /\ WF_vars(ClearEnd)

NextWorkers ==
    \/ WorkerGet
    \/ WorkerRefreshPost
    \/ WorkerRefreshReply
    \/ WorkerRetry
    \/ WorkerReturn

SpecWorkers == Init /\ [][NextWorkers]_vars

NextNames ==
    \/ CallMakePykumos
    \/ NameUnit
    \/ ReturnKumos
    \/ MakePykumosDone

SpecNames == Init /\ [][NextNames]_vars
(***************************************************************************)
(* Properties of the query engine, checked under SpecRetrieve.             *)
(***************************************************************************)

\* The classification policy of the top-level loop, applied to a response:
\* what a loop that follows it does with the response.
PolicyOutcome(r) ==
    IF ~IsDict(r) THEN "raise"
    ELSE IF RebootableResponse(r) THEN "reboot"
    ELSE IF RetryableResponse(r) THEN "retry"
    ELSE "accept"

\* C1: any two reboot commands sent by the retrieval engine of one client are
\* more than 30 minutes apart on the clock the client reads, over any
\* sequence of calls and with the clock set back between calls.
C1_RebootsMoreThanWindowApart ==
    \A i, j \in 1..Len(rebootLog) :
        i < j => rebootLog[j] - rebootLog[i] > RebootWindow

C1_TwoRebootsSent == Len(rebootLog) >= 2

\* C2: a call (with the default do_top_query) in which a rebootable response
\* was received, entered when no reboot was sent in the previous 30 minutes,
\* sends exactly one reboot command and re-runs the retrieval exactly once.
C2_OneRebootOneRerun ==
    (pc = "done" /\ do_top_query /\ sawRebootable /\ openAtCall)
        => (callReboots = 1 /\ depth = 1)

\* C3: in the attribute fallback each sub-query is classified by its own
\* sub-response with the policy of the top-level loop: re-issued while that
\* sub-response is retryable, stopped when it is acceptable, and a rebootable
\* sub-response flags a reboot (stated for the default do_top_query).
C3_SubQueryClassifiedByOwnResponse ==
    (do_top_query /\ subOutcome # "none")
        => subOutcome = PolicyOutcome(sub_response)

\* C4: when every top-level response of a pass is device_authentication_error,
\* the top-level loop ends after exactly `retries` requests with no reboot
\* flagged, the per-attribute queries are sent only after them, and they are
\* sent.
C4_AuthTopLevelUsesAllRetries ==
    /\ (do_top_query /\ topAllAuth /\ pc \in {"sub", "finish", "done"})
          => (topCount = retries /\ ~should_reboot)
    /\ (do_top_query /\ topAllAuth /\ subCount > 0) => topCount = retries
    /\ (do_top_query /\ topAllAuth /\ retries > 0 /\ needed # << >>
          /\ pc = "finish") => subCount > 0

C4_FallbackAfterThreeAuthErrors ==
    /\ pc = "sub"
    /\ do_top_query
    /\ topAllAuth
    /\ retries = 3
    /\ topCount = 3
    /\ subCount = 1

QueriesAndRebootsBounded ==
    /\ callQueries <= 2 * retries * (1 + Len(needed))
    /\ callReboots <= 1
    /\ depth <= 1

SubscribeKinds ==
    { "subscribeAccount", "subscribeDevices", "force_adapter_request",
      "device_status_v2" }

\* C7: for each requested serial the password of the result is the one of
\* the first accepted adapter_update event for that serial; a later event
\* for the same serial never changes it.
C7_FirstAcceptedPasswordKept ==
    spc = "returned" => \A s \in DOMAIN result : result[s] = firstPw[s]

\* C8: when the namespace connect is rejected again on the attempt that
\* follows a successful refresh, no subscribe or force-update frame is
\* sent, no poll of the loop is made, and the call returns an empty map.
C8_SecondRejectionAborts ==
    rejectedAgain =>
        /\ sent \cap SubscribeKinds = {}
        /\ spc \notin { "pollAccount", "pollDevices", "pollIssue", "polling" }
        /\ spc = "returned" => result = EmptyMap

\* C9: in one call a namespace rejection triggers at most one refresh() and
\* at most one restart of the session, whose handshake is made with the
\* refreshed access token; no more than two handshakes are made.
C9_OneRefreshOneRestart ==
    /\ Len(handshakeLog) <= 2
    /\ refreshCalls <= 1
    /\ retried => refreshCalls = 1
    /\ Len(handshakeLog) = 2 =>
          /\ refreshCalls = 1
          /\ retried
          /\ handshakeLog[2] = refreshedTo
          /\ handshakeLog[2] # handshakeLog[1]

\* The server rejected the namespace connect of the restarted session too.
C9_RejectedTwice ==
    Len(handshakeLog) = 2 /\ rejectedAgain /\ refreshCalls = 1

\* C10: once cancel() has set the flag, the polling loop issues no poll GET
\* other than one that raced with its check of the flag, and when it stops
\* on the flag the call returns the passwords collected so far.
C10_CancelStopsPolling ==
    /\ pollsAfterCancel <= 1
    /\ (spc = "loopHead" /\ cancel_event) => pollsAfterCancel <= 1
    /\ (spc = "returned" /\ brokeOnCancel) =>
          /\ cancel_event
          /\ ~sessionRaised
          /\ result = passwords
          /\ result = firstPw \/ overwritten

\* A poll raced with the check, the next check stopped the loop, and the
\* call returned the password it had collected.
C10_CancelledWithPasswords ==
    /\ spc = "returned"
    /\ brokeOnCancel
    /\ pollsAfterCancel = 1
    /\ result # EmptyMap
    /\ serials_needed \ DOMAIN result # {}

\* C11: every heartbeat "2" received in a poll response of a session is
\* answered by a POST of "3" before the next poll GET of that session,
\* the polls made during namespace connect and subscription included: no
\* poll GET is due or in flight while a heartbeat is unanswered.
C11_HeartbeatAnsweredBeforeNextPoll ==
    unansweredPing => spc \notin { "pollAccount", "pollDevices", "polling" }

\* C12: the result of a harvesting call holds a password for every serial
\* for which one was accepted during the session, also when a later POST
\* or GET failed or timed out or the deadline expired.
C12_CollectedPasswordsReturned ==
    spc = "returned" => DOMAIN passwords \subseteq DOMAIN result

\* C13: when every network call returns or times out, the harvesting call
\* eventually returns a mapping and never raises.
C13_CallEventuallyReturns == <>(spc = "returned")

\* The polling loop ran past its deadline with a serial unresolved, and the
\* call returned.
C13_ReturnedAtDeadline ==
    /\ spc = "returned"
    /\ ~sessionRaised
    /\ poll_count > 0
    /\ mono >= deadline
    /\ serials_needed \ DOMAIN result # {}

\* C14: unless the handshake response is a success whose text is "0" and a
\* JSON object holding a sid, the attempt sends no frame and the session
\* returns an empty map.
C14_BadHandshakeSendsNothing ==
    sid # "sid" => /\ sent = {}
                   /\ spc \notin { "pollConnect", "pollAccount", "pollDevices",
                                   "polling" }
                   /\ spc = "returned" => result = EmptyMap


\* C28: every GET of the polling loop is issued with a timeout of
\* min(25 s, seconds remaining until the deadline), so that no poll waits
\* past the deadline.  A poll that has waited `waited` seconds was issued
\* at mono - waited.
C28_PollTimeoutWithinDeadline ==
    spc = "polling" =>
        /\ pollTimeout = Min(PollTimeoutCap, deadline - (mono - waited))
        /\ mono <= deadline

\* The session is in its polling loop (lines 266-292).
InPollingLoop ==
    \/ spc \in { "loopHead", "pollIssue", "polling", "pong" }
    \/ spc = "scan" /\ extractFor = "loop"

\* The frames of the steps before `kind` that the running attempt must
\* have sent, with the account subscribe counted among them or not.
EarlierFrames(kind, withAccount) ==
    LET account == IF withAccount THEN { "subscribeAccount" } ELSE {}
    IN  CASE kind = "40" -> {}
          [] kind = "subscribeAccount" -> { "40" }
          [] kind = "subscribeDevices" -> { "40" } \cup account
          [] kind = "force_adapter_request" ->
                { "40", "subscribeDevices" } \cup account
          [] kind = "device_status_v2" ->
                { "40", "subscribeDevices", "force_adapter_request" }
                    \cup account
          [] OTHER ->
                { "40", "subscribeDevices", "force_adapter_request",
                  "device_status_v2" } \cup account

\* The frames sent so far came in the order of the steps, after a
\* handshake, and the loop polls only after the force-update frames.
StepsInOrder(withAccount) ==
    /\ \A kind \in sent : EarlierFrames(kind, withAccount) \subseteq sent
    /\ sent # {} => sid # "unset"
    /\ InPollingLoop => EarlierFrames("3", withAccount) \subseteq sent

\* C32: within one session attempt no frame of a later step is sent before
\* the frames of every earlier step were sent (handshake, "40", account
\* subscribe, device subscribe, force-update frames), and polling starts
\* only after the force-update frames were sent.
C32_StepsInOrder == StepsInOrder(TRUE)

\* C32 as the code has it: the account subscribe is sent exactly when the
\* access token yields a user id (lines 237-245), and is left out of the
\* sequence otherwise; every other step comes in the order of the claim.
C32_StepsInOrderAccountOptional ==
    /\ StepsInOrder(access_token # NoToken /\ access_token.id)
    /\ "subscribeAccount" \in sent => access_token.id

\* An attempt that sent the frames of every step polls.
C32_PollingAfterEveryStep ==
    /\ spc = "polling"
    /\ { "40", "subscribeAccount", "subscribeDevices", "force_adapter_request",
         "device_status_v2" } \subseteq sent

\* C36: a cancel() issued before the polling loop has begun, during the
\* login or the enumeration included, is not lost: no step before the loop
\* unsets the flag it set, and the loop, finding the flag set at its first
\* test, goes on to no poll.
C36_EarlyCancelStopsLoop ==
    [][/\ (cancel_event /\ BeforeLoop) => cancel_event'
       /\ (cancel_event /\ spc = "loopHead") => spc' # "pollIssue"]_vars
(***************************************************************************)
(* Properties of the authenticated GET.                                    *)
(***************************************************************************)
\* C15: one _get makes at most two HTTP GETs and at most one refresh();
\* the second GET is made only after a 401 and a successful refresh and
\* carries the new access token; when the refresh fails, or the second
\* reply is still 401, the call yields no data and refreshes no more.
C15_OneRefreshOneRetry ==
    /\ Len(getLog) <= 2
    /\ getRefreshes <= 1
    /\ getRefreshes = 1 => firstStatus = "401"
    /\ Len(getLog) = 2 =>
          /\ firstStatus = "401"
          /\ getRefreshes = 1
          /\ getRefreshed
          /\ getLog[2] = issued
          /\ getLog[2] > getLog[1]
          /\ gpc \in { "finish", "done" } => getLog[2] = access_token.v
    /\ (gpc = "done" /\ getRefreshes = 1 /\ ~getRefreshed) =>
          /\ Len(getLog) = 1
          /\ getResult \in { "None", "raised" }
    /\ (gpc = "done" /\ Len(getLog) = 2 /\ getStatus = "401") =>
          getResult = "None"
    /\ (gpc = "done" /\ getResult = "data") => getStatus = "ok_json"

\* The reply to the GET made after a successful refresh was 401 again.
C15_StillUnauthorizedAfterRefresh ==
    /\ gpc = "done"
    /\ Len(getLog) = 2
    /\ getStatus = "401"
    /\ getRefreshes = 1
    /\ getResult = "None"


\* refresh() has returned False in the running call.
RefreshReturnedFalse ==
    /\ getRefreshes = 1
    /\ ~getRefreshed
    /\ getResult # "raised"

\* C35: a refresh() that returns False leaves the stored access token and
\* refresh token exactly as they were before the call.
C35_FailedRefreshKeepsTokens ==
    RefreshReturnedFalse => << access_token, refresh_token >> = refreshFrom
(***************************************************************************)
(* Properties of probe_candidate_ips.                                      *)
(***************************************************************************)
Cardinal(S) == Cardinality(S)

\* C16: for every candidate list and every outcome of the probes, the map
\* returned binds no address to two serials, its keys are serials with
\* usable credentials, its values candidate addresses, and it has at most
\* min(N, M) entries for N addresses and M credentials.
C16_NoAddressBoundTwice ==
    /\ \A s, t \in DOMAIN probeResult :
          probeResult[s] = probeResult[t] => s = t
    /\ DOMAIN probeResult \subseteq device_creds
    /\ Range(probeResult) \subseteq SeqToSet(candidate_ips)
    /\ Cardinal(DOMAIN probeResult) <= Cardinal(SeqToSet(candidate_ips))
    /\ Cardinal(DOMAIN probeResult) <= Cardinal(device_creds)

\* C17: when every credentialed device answers a probe successfully exactly
\* at its own address and for its own credential, and every such address
\* is a candidate, every such serial is bound to its own address.
C17_EachSerialAtItsOwnAddress ==
    (/\ ppc = "done"
     /\ honest
     /\ Range(home) \subseteq SeqToSet(candidate_ips)) => probeResult = home

\* Two devices were found, the second listed first, after failed probes.
C17_TwoDevicesResolved ==
    /\ ppc = "done"
    /\ honest
    /\ Cardinal(DOMAIN home) = 2
    /\ Range(home) \subseteq SeqToSet(candidate_ips)
    /\ probes >= 3
    /\ probeResult = home

\* C18: no probe carries a credential already bound, no probe goes to an
\* address already bound, no probe is sent once every credentialed serial
\* is bound, and at most (candidate addresses x credentialed serials)
\* probes are sent.
C18_ProbesOnlyOutstanding ==
    /\ ~probedBoundCred
    /\ ~probedBoundAddr
    /\ ~probedAfterAll
    /\ probes <= Len(candidate_ips) * Cardinal(device_creds)

(***************************************************************************)
(* Properties of the cloud account.                                        *)
(***************************************************************************)
\* The fields present in `before` are present in `after`.
KeepsPresent(before, after) ==
    \A s \in DOMAIN before, f \in UnitFields :
        before[s][f] # "" => (s \in DOMAIN after /\ after[s][f] # "")

\* The fields present in `before` have the same value in `after`.
KeepsValues(before, after) ==
    \A s \in DOMAIN before, f \in UnitFields :
        before[s][f] # "" => (s \in DOMAIN after /\ after[s][f] = before[s][f])

\* C19: no operation of the cloud account replaces a present password,
\* cryptoSerial or address of a device by an empty or absent value, in the
\* units or in the raw dictionary, and supplementing changes no field that
\* was present.
C19_PresentFieldsNeverLost ==
    /\ KeepsPresent(unitsBefore, units)
    /\ KeepsPresent(rawBefore, raw)
    /\ lastOp = "supplement" =>
          KeepsValues(unitsBefore, units) /\ KeepsValues(rawBefore, raw)


\* C22: when the V2 login of an account failed (timeout, refused
\* connection or error status) and the account has no dictionary, every
\* method that starts with _fetch_if_needed returns without raising:
\* try_setup False, get_all_units no serial, the others None.
C22_FailedLoginIsSoft ==
    (loginFailed /\ ~have_dict /\ apc = "returned") =>
        acctRet \in { "False", "empty", "None" }

\* The devices of the dictionary d that have an address.
Addressed(d) == { s \in DOMAIN d : d[s]["address"] # "" }

C38_SupplementRunsOnce == v3Runs <= 1

(***************************************************************************)
(* Properties of merge.                                                    *)
(***************************************************************************)
\* C21: merge is idempotent: for all nested mappings d and v, merging v a
\* second time into merge(d, v) leaves it equal to merge(d, v).
C21_MergeIdempotent == mpc = "twice" => merge_d = mergedOnce

\* A second merge was made where d and v both hold a mapping at "r", so
\* that the recursion ran, and v overwrote a leaf of d.
C21_NestedMergedTwice ==
    /\ mpc = "twice"
    /\ "r" \in DOMAIN merge_v[2]
    /\ IsMapping(merge_v[2]["r"])
    /\ merge_v[2]["r"][2] # EmptyMap
    /\ DOMAIN merge_d[2]["r"][2] # DOMAIN merge_v[2]["r"][2]

(***************************************************************************)
(* Properties of the token computations and of _request.                   *)
(***************************************************************************)
\* A token of 64 hexadecimal digits.
IsHexToken(t) ==
    /\ t.exc = "none"
    /\ Len(t.hex) = 64
    /\ \A j \in 1..64 : t.hex[j] \in 0..15

\* The token computations that have run in this state.
Computed == { t \in { token, ctoken } : t # NotComputed }

\* C26 as claimed: for every password, payload and cryptoSerial of exactly
\* 8 bytes the token computation succeeds and yields a token of 64
\* hexadecimal characters.
C26_EightBytesGiveToken ==
    Len(q_serial) = 8 => \A t \in Computed : IsHexToken(t)

\* C26 as amended: for every password, payload and cryptoSerial of nine
\* bytes or more the token computation succeeds and yields a token of 64
\* hexadecimal characters; with fewer than nine bytes it raises IndexError.
C26_NineBytesGiveToken ==
    \A t \in Computed :
        IF Len(q_serial) >= 9 THEN IsHexToken(t) ELSE t.exc = "IndexError"

\* _token has given a token for a cryptoSerial of nine bytes.
C26_TokenOfNineBytes ==
    /\ Len(q_serial) = 9
    /\ IsHexToken(token)
    /\ qpc = "put"

\* C29: _request never raises for a transport failure: after a timeout, a
\* refused connection or a reply that is not JSON, and when the unit has
\* no address, it returns an empty mapping.
C29_TransportFailureGivesEmpty ==
    (qpc = "done" /\ (q_outcome \in { "timeout", "refused", "nonjson" }
                        \/ (~q_address /\ ctoken = NotComputed))) =>
        q_ret = "empty"

\* _request has returned {} after a refused connection.
C29_RefusedGaveEmpty ==
    /\ qpc = "done"
    /\ q_outcome = "refused"
    /\ q_ret = "empty"

\* C33: for every password, cryptoSerial and payload, _compute_token gives
\* what PyKumoBase._token gives for a client holding the same password and
\* cryptoSerial: the same token, or the same failure.
C33_ComputeTokenEqualsToken ==
    /\ ctoken # NotComputed => ctoken = Token(q_password, q_serial, post_data)
    /\ token # NotComputed =>
          token = ComputeToken(q_password, q_serial, post_data)

\* _compute_token has given a token for a payload that is not empty.
C33_ComputedTokenOfPayload ==
    /\ IsHexToken(ctoken)
    /\ post_data # << >>
    /\ q_password # << >>

(***************************************************************************)
(* Properties of update_status.                                            *)
(***************************************************************************)
\* C23: update_status of PyKumo and of PyKumoStation never raises,
\* whatever the device returns: when the status cannot be retrieved it
\* returns False and leaves the cached status as it was.
C23_UpdateStatusNeverRaises ==
    /\ u_ret # "raised"
    /\ (upc = "done" /\ u_failedAt = "status") =>
          (u_ret = "False" /\ u_status = statusAtCall)

\* C34: update_status of a unit or of a station sends no request to the
\* device when it is called less than CACHE_INTERVAL_SECONDS after the
\* last status retrieval that succeeded.
C34_NoRequestWhileFresh ==
    upc = "status" => u_expired

\* C37: whenever PyKumo.update_status returns False the cache is not
\* marked fresh: the test of the next call (line 306) sends it to the
\* device again, however soon it is made.
C37_FalseLeavesCacheStale ==
    (upc = "done" /\ u_class = "PyKumo" /\ u_ret = "False") =>
        (u_expired \/ u_status # "full")

(***************************************************************************)
(* Properties of the schedule operations.                                  *)
(***************************************************************************)
\* C24: every schedule fetch, of schedule.py and of py_kumo.py, raises
\* when the response of the unit does not hold
\* r.indoorUnit.schedule.events; it never returns with an empty schedule
\* then.
C24_FetchRaisesWithoutEvents ==
    (hpc = "done" /\ h_op = "fetch" /\ lacking) => h_ret = "raised"

\* C25: push raises whenever the request of a batch failed, by transport
\* failure or by an error response: it never returns after a batch that
\* was not accepted, and sends no batch after a failed one.
C25_PushRaisesOnFailedBatch ==
    /\ (hpc = "done" /\ h_op = "push" /\ batchFailed) => h_ret = "raised"
    /\ ~sentAfterFailed

\* C40: clear() on a UnitSchedule that has slots terminates, leaving
\* every slot deactivated and the slot names as they were.
C40_ClearTerminates ==
    (hpc = "clearing" /\ events_by_slot > 0) ~>
        (hpc = "done" /\ h_op = "clear" /\ active_slots = {})

(***************************************************************************)
(* Properties of a shared client.                                          *)
(***************************************************************************)
\* The workers that are inside refresh().
Refreshing == { w \in Workers : wpc[w] = "refreshing" }

\* C27: when several workers share one KumoCloudV3 client, refresh() runs
\* in mutual exclusion: no two workers are inside refresh() at once, and
\* none submits a refresh token that another has already exchanged.
C27_RefreshMutualExclusion ==
    /\ \A v, w \in Refreshing : v = w
    /\ ~spentSubmitted

====
